---- MODULE Spec2Model ----
(***************************************************************************)
(* Job lifecycle of the Quantinuum backend adapter                         *)
(* (pytket/extensions/quantinuum/backends/quantinuum.py): submission and   *)
(* handle issuance, batching, status polling with the one-shot re-login,   *)
(* result retrieval and the result cache.                                  *)
(*                                                                         *)
(* One backend instance is modelled together with the remote service it    *)
(* talks to.  Every public method is one action; the outcome of each call  *)
(* it makes on the API handler is drawn from the outcomes that call can    *)
(* have.  `last` records what the most recent public call did and what it  *)
(* gave back to its caller.                                                *)
(***************************************************************************)
EXTENDS Integers, Sequences, FiniteSets, TLC

VARIABLES
    machine_debug,  \* self._MACHINE_DEBUG
    process_circuits_options,  \* self._process_circuits_options
    device_name,    \* self._device_name
    _backend_info,   \* self._backend_info: {} for None, or the descriptor fetched
    misc,           \* capability map of the device (_backend_info.misc)
    jobs,           \* the service's job records, indexed by job number
    cache,          \* self._cache: handle -> entry
    batchHeads,     \* history: job ids of the handles start_batch has returned
    last,           \* history: the most recent public call and its outcome
    handler,        \* the API handler's settings (timeout, retry_timeout, provider)
    inflight        \* the get_result calls running concurrently, by caller

vars == <<machine_debug, process_circuits_options, device_name, _backend_info, misc, jobs, cache, batchHeads, last, handler, inflight>>

(***************************************************************************)
(* Bounds                                                                  *)
(***************************************************************************)
MaxJobs == 2       \* jobs the service accepts in a behaviour of submissions
MaxPolled == 1     \* jobs the service accepts in a behaviour of retrievals
MaxCircs == 2      \* circuits in one process_circuits call
MaxReqShots == 3   \* largest shot count a caller asks for
MaxQubits == 2     \* most qubits, and most bits, of a circuit run in debug mode

\* The n_shots capability the device advertises when it advertises one.
DeviceMaxShots == MaxReqShots - 1

None == "None"

(***************************************************************************)
(* Constants of the source                                                 *)
(***************************************************************************)
_DEBUG_HANDLE_PREFIX == "_MACHINE_DEBUG_"

RemoteStatuses == {"queued", "running", "completed", "failed", "canceling", "canceled"}

\* Lines 71-78 with "canceling" taken for a job that still runs.
StatusMapCancelingRuns ==
    [queued |-> "QUEUED", running |-> "RUNNING", completed |-> "COMPLETED",
     failed |-> "ERROR", canceling |-> "RUNNING", canceled |-> "CANCELLED"]

_STATUS_MAP ==
    [queued |-> "QUEUED", running |-> "RUNNING", completed |-> "COMPLETED",
     failed |-> "ERROR", canceling |-> "CANCELLED", canceled |-> "CANCELLED"]

(***************************************************************************)
(* Job ids and handles.  A job id is the string the service returns, or    *)
(* the debug marker _MACHINE_DEBUG_(n_qubits, n_shots).                    *)
(***************************************************************************)
ServiceJobId(n) == [kind |-> "job", a |-> n, b |-> 0]
DebugJobId(n_qubits, n_shots) == [kind |-> _DEBUG_HANDLE_PREFIX, a |-> n_qubits, b |-> n_shots]

\* jobid.startswith(_DEBUG_HANDLE_PREFIX)
StartsWithDebugPrefix(jobid) == jobid.kind = _DEBUG_HANDLE_PREFIX

ResultHandle(jobid, pp) == [job |-> jobid, pp |-> pp]

\* json.dumps / json.loads of the post-processing circuit's dictionary
JsonDumps(rep) == IF rep = None THEN "null" ELSE "{ppcirc}"
JsonLoads(str) == IF str = "null" THEN None ELSE "ppcirc_dict"

PPDescriptors == {JsonDumps(None), JsonDumps("ppcirc_dict")}

\* The circuits submitted: of a circuit, the model keeps what the backend reads.
Circuits == {[n_qubits |-> 1]}

\* Circuits run in debug mode, with their number of classical bits.
DebugCircuits == [n_qubits : 0..MaxQubits, n_bits : 0..MaxQubits]

(***************************************************************************)
(* Results payloads and their decoding                                     *)
(***************************************************************************)
\* Register names in lexicographic order: sorted() compares names as strings.
RegOrder == <<"a", "b", "c">>

RECURSIVE ReverseSeq(_)
ReverseSeq(s) == IF s = <<>> THEN <<>> ELSE Append(ReverseSeq(Tail(s)), Head(s))

RECURSIVE Flatten(_)
Flatten(ss) == IF ss = <<>> THEN <<>> ELSE Head(ss) \o Flatten(Tail(ss))

\* np.array([list(a) for a in reslist]).astype(np.uint8)
BitOfChar(ch) == IF ch = "1" THEN 1 ELSE 0
ToArray(reslist) == [i \in 1..Len(reslist) |-> [j \in 1..Len(reslist[i]) |-> BitOfChar(reslist[i][j])]]

\* array.shape[-1]
Width(arr) == IF Len(arr) = 0 THEN 0 ELSE Len(arr[1])

\* Lines 922-938 with the registers taken in ascending order of name.
ConvertResultAscending(resultdict, ppcirc) ==
    LET array_dict == [creg \in DOMAIN resultdict |-> ToArray(resultdict[creg])]
        creg_names == SelectSeq(RegOrder, LAMBDA n : n \in DOMAIN array_dict)
        nshots == IF creg_names = <<>> THEN 0 ELSE Len(array_dict[creg_names[1]])
        c_bits == Flatten([k \in 1..Len(creg_names) |->
                      LET name == creg_names[k]
                          w == Width(array_dict[name])
                      IN [j \in 1..w |-> <<name, w - j>>]])
        stacked_array ==
            [i \in 1..nshots |->
                Flatten([k \in 1..Len(creg_names) |-> array_dict[creg_names[k]][i]])]
    IN [c_bits |-> c_bits, shots |-> stacked_array, ppcirc |-> ppcirc]

_convert_result(resultdict, ppcirc) ==
    LET array_dict == [creg \in DOMAIN resultdict |-> ToArray(resultdict[creg])]
        reversed_creg_names ==
            SelectSeq(ReverseSeq(RegOrder), LAMBDA n : n \in DOMAIN array_dict)
        nshots == IF reversed_creg_names = <<>> THEN 0
                  ELSE Len(array_dict[reversed_creg_names[1]])
        c_bits == Flatten([k \in 1..Len(reversed_creg_names) |->
                      LET name == reversed_creg_names[k]
                          w == Width(array_dict[name])
                      IN [j \in 1..w |-> <<name, w - j>>]])
        stacked_array ==
            [i \in 1..nshots |->
                Flatten([k \in 1..Len(reversed_creg_names) |->
                            array_dict[reversed_creg_names[k]][i]])]
    IN [c_bits |-> c_bits, shots |-> stacked_array, ppcirc |-> ppcirc]

\* The results payloads the service returns in this model.
PayloadAB == ("a" :> << <<"0", "1">> >>) @@ ("b" :> << <<"1", "1", "0">> >>)
PayloadC == ("c" :> << <<"1">>, <<"0">> >>)
Payloads == {PayloadAB, PayloadC}

\* The payloads decoding is checked on: one or two registers, each a list of
\* bit-strings of one width (0 to MaxWidth characters), one string per shot
\* (1 to MaxRows shots).  The first shot's string is any bit-string; each
\* later shot's string is the complement of the one before.
MaxWidth == 3
MaxRows == 2

\* The largest index of a qubit or classical bit of the circuits the passes
\* are checked on, and the largest max_size of the scratch-register pass.
MaxBitIndex == 2
MaxChunkSize == 3

\* The most operations of the circuits the register-flattening pass is
\* checked on.
MaxOps == 2

BitStrings == UNION {[1..w -> {"0", "1"}] : w \in 0..MaxWidth}
Complement(str) == [j \in 1..Len(str) |-> IF str[j] = "0" THEN "1" ELSE "0"]
ShotStrings(first, n) == [i \in 1..n |-> IF i % 2 = 1 THEN first ELSE Complement(first)]

DecodePayloads ==
    UNION {{[r \in regs |-> ShotStrings(first[r], n)] : first \in [regs -> BitStrings]} :
              regs \in (SUBSET {"a", "b"}) \ {{}}, n \in 1..MaxRows}

(***************************************************************************)
(* The remote service                                                      *)
(***************************************************************************)
\* A job record as the service holds it.  `results` is empty when the
\* response carries no "results" key, and holds the payload otherwise.
\* `prior` is history: the job was submitted by an earlier backend instance.
NewJob == [status |-> "queued", results |-> {}, prior |-> FALSE]

JobNumbers == 1..Len(jobs)
JobOf(jobid) == jobs[jobid.a]
Exists(jobid) == jobid.kind = "job" /\ jobid.a \in JobNumbers

\* The response dictionary of a status or job query.
Response(job) == [status |-> job.status, results |-> job.results]

\* Outcomes of the API handler's calls.
SubmitOutcomes == {"ok", "http_error", "conn_error"}
StatusOutcomes == {"ok", "none", "api_error", "net_error"}
LoginOutcomes == {"ok", "fail"}
RetrieveOutcomes == {"ok", "none", "error"}

(***************************************************************************)
(* The record of the most recent public call                               *)
(***************************************************************************)
NoCalls ==
    [submit |-> 0, status |-> 0, login |-> 0, retrieve |-> 0, cancel |-> 0, devices |-> 0]

Call(op) ==
    [op |-> op,
     outcome |-> "ok",        \* "ok" or the name of the exception raised
     arg |-> {},              \* the handle passed in, if any
     handles |-> <<>>,        \* the handles returned to the caller
     ret |-> {},              \* the result returned by get_result
     status |-> None,         \* the status returned by circuit_status
     accepted |-> {},         \* job ids the service accepted during the call
     known |-> FALSE,         \* the handle had a cache entry when the call began
     hit |-> {},              \* the result cached for the handle when the call began
     bodies |-> <<>>,         \* request bodies sent to the service
     outs |-> <<>>,           \* what the service answered to each of them
     script |-> <<>>,         \* how each status query, login and retrieval ended
     response |-> {},         \* the job record a query or retrieval brought back
     kw |-> [k \in {} |-> 0],  \* the timeout and wait kwargs of get_result
     used |-> {},             \* the transport settings a retrieval ran with
     n_circuits |-> 0,        \* the number of circuits passed in
     circuits |-> <<>>,       \* the circuits passed in
     shots |-> <<>>,          \* the shot count asked for each of them
     postprocess |-> FALSE,   \* the postprocess kwarg of a submission
     given |-> [k \in {} |-> "None"],  \* the batching arguments of the call
     options |-> [k \in {} |-> "None"],  \* the options kwarg of a submission
     request_options |-> [k \in {} |-> "None"],  \* its request_options kwarg
     wasm |-> FALSE,          \* a wasm_file_handler was passed in
     requests |-> <<>>,       \* the job ids of the cancellation requests sent
     before |-> {},           \* the remote status of the job when cancel began
     message |-> "",          \* the message of the API error raised
     named |-> {},            \* the device names the message of a ValueError gives
     checker |-> {},          \* the syntax-checker device cost resolved
     estimate |-> {},         \* the cost returned: {} for None
     info |-> {},             \* self._backend_info as the call leaves it
     passlist |-> <<>>,       \* the passes of the pipeline built
     name |-> "None",         \* the name kwarg submit_qasm was last given
     valid_check |-> TRUE,    \* the valid_check argument of a submission
     fidelities |-> {},       \* the fidelities DecomposeTK2 was given
     gate_set |-> {},         \* self._gate_set as the call read it
     calls |-> NoCalls]       \* calls made on the API handler

EmptyDict == [k \in {} |-> None]

\* dict.update: the argument's items win.
Update(d, other) == other @@ d

(***************************************************************************)
(* State after construction (__init__, lines 222-236)                      *)
(***************************************************************************)
\* Capability maps of the devices in this model: one with a shot limit and
\* batching, one with neither.
BatchingDevice == ("n_shots" :> DeviceMaxShots) @@ ("batching" :> TRUE)
PlainDevice == "batching" :> FALSE
WasmDevice == BatchingDevice @@ ("wasm" :> TRUE)
MiscMaps == {BatchingDevice, PlainDevice}

\* The transport settings the API handler was constructed with.
DefaultSettings == [timeout |-> 10, retry_timeout |-> 2, provider |-> None]

\* Lines 232-234 of __init__: the backend takes the API handler and sets
\* the handler's provider to its own provider argument.
__init__(c, provider) == [c EXCEPT !.handler.provider = provider]

\* No get_result call is running.
Idle == [t \in {} |-> None]

\* _GATE_SET, lines 80-95.
_GATE_SET ==
    {"Rz", "PhasedX", "ZZMax", "Reset", "Measure", "Barrier", "RangePredicate",
     "MultiBit", "ExplicitPredicate", "ExplicitModifier", "SetBits", "CopyBits",
     "ClassicalExpBox", "WASM"}

\* _get_gateset, lines 98-102: the gate set of a device that advertises
\* the gate names `gates`.
_get_gateset(gates) ==
    IF "RZZ" \in gates THEN _GATE_SET \cup {"ZZPhase"} ELSE _GATE_SET

\* The "gateset" entry of the devices the service lists: the two-qubit gates
\* are "ZZ" and "RZZ"; the emulator H1-1E advertises neither.
DeviceGates ==
    ("H1-1" :> {"Rz", "U1q", "ZZ", "RZZ"})
    @@ ("H1-1SC" :> {"Rz", "U1q", "ZZ", "RZZ"})
    @@ ("H2" :> {"Rz", "U1q", "ZZ"})
    @@ ("H1-1E" :> {"Rz", "U1q"})

\* dct.pop("gateset", []) of the listing's entry for a device name.
AdvertisedGates(name) ==
    IF name \in DOMAIN DeviceGates THEN DeviceGates[name] ELSE {}

\* The device this model's backend is constructed for unless stated.
DefaultDevice == "H1-1SC"

\* _dict_to_backendinfo: the descriptor of a device the listing gives with
\* capability map m, for an instance constructed with the options opts
\* (_retrieve_backendinfo stores them under the map's "options" key).
BackendInfoOf(name, m, opts) ==
    [name |-> name, misc |-> m, options |-> opts,
     gate_set |-> _get_gateset(AdvertisedGates(name))]

\* self._backend_info once the descriptor was fetched; debug mode fetches none.
Descriptor ==
    IF machine_debug THEN {}
    ELSE {BackendInfoOf(device_name, misc, process_circuits_options)}

InitWith(maps) ==
    /\ machine_debug = FALSE
    /\ process_circuits_options = EmptyDict
    /\ device_name = DefaultDevice
    /\ misc \in maps
    /\ _backend_info = Descriptor
    /\ jobs = <<>>
    /\ cache = EmptyDict
    /\ batchHeads = {}
    /\ last = Call("init")
    /\ handler = DefaultSettings
    /\ inflight = Idle

Init == InitWith(MiscMaps)

\* A backend constructed with machine_debug = True, or without.
InitDebug ==
    /\ machine_debug \in BOOLEAN
    /\ process_circuits_options = EmptyDict
    /\ device_name = DefaultDevice
    /\ misc = BatchingDevice
    /\ _backend_info = Descriptor
    /\ jobs = <<>>
    /\ cache = EmptyDict
    /\ batchHeads = {}
    /\ last = Call("init")
    /\ handler = DefaultSettings
    /\ inflight = Idle

\* self.backend_info: None in debug mode, the device's descriptor otherwise.
HasBackendInfo == ~machine_debug

\* dict.get(key, default) on the capability map
MiscGet(key, default) == IF key \in DOMAIN misc THEN misc[key] ELSE default

(***************************************************************************)
(* submit_qasm (lines 450-547)                                             *)
(***************************************************************************)
\* Lines 504-509: the "options" dictionary the body starts with.  Values are
\* written as strings.
DefaultOptions ==
    ("simulator" :> "state-vector") @@ ("no-opt" :> "False")
    @@ ("error-model" :> "True") @@ ("tket" :> "{}")

\* self._label as __init__ leaves it by default (line 190).
_label == "job"

\* Line 498 with the name argument ignored.
JobNameLabel(name) == _label

\* Line 498: name or f"{self._label}".
JobName(name) == IF name \in {None, ""} THEN _label ELSE name

\* Lines 497-529 with the constructor's options applied after the call's.
BodyInstanceLast(c, n_shots, request_options) ==
    LET body == ("name" :> JobName(c.name)) @@ ("count" :> n_shots)
                @@ ("machine" :> device_name) @@ ("language" :> "OPENQASM 2.0")
                @@ ("priority" :> "normal") @@ ("options" :> DefaultOptions)
        cfl == IF c.wasm THEN Update(body, "cfl" :> "wasm_file_encoded") ELSE body
        inst == [cfl EXCEPT !["options"] = Update(@, c.options)]
        call == [inst EXCEPT !["options"] = Update(@, process_circuits_options)]
    IN Update(call, request_options)

\* The request body, lines 497-529, as far as this model reads it: the shot
\* count, the priority, the options and the WASM module.
Body(c, n_shots, request_options) ==
    LET body == ("name" :> JobName(c.name)) @@ ("count" :> n_shots)
                @@ ("machine" :> device_name) @@ ("language" :> "OPENQASM 2.0")
                @@ ("priority" :> "normal") @@ ("options" :> DefaultOptions)
        cfl == IF c.wasm THEN Update(body, "cfl" :> "wasm_file_encoded") ELSE body
        inst == [cfl EXCEPT !["options"] = Update(@, process_circuits_options)]
        call == [inst EXCEPT !["options"] = Update(@, c.options)]
    IN Update(call, request_options)

\* Lines 519-521 never raising.
WasmCheckSkipped(c) == FALSE

\* Lines 519-521: TRUE when WasmUnsupported is raised.
WasmRefused(c) == c.wasm /\ HasBackendInfo /\ ~MiscGet("wasm", FALSE)

\* One submit_qasm call threaded through a call record `c` that also carries
\* the service's jobs (c.jobs) and the handle submit_qasm returns (c.h).
SubmitQasmRetry(c, n_shots, request_options, out) ==
    LET body == Body(c, n_shots, request_options)
        sent == [c EXCEPT !.bodies = Append(@, body), !.outs = Append(@, out),
                          !.calls.submit = @ + 1]
        again == [sent EXCEPT !.bodies = Append(@, body), !.outs = Append(@, out),
                              !.calls.submit = @ + 1]
        jobid == ServiceJobId(Len(c.jobs) + 1)
    IN CASE WasmRefused(c) -> [c EXCEPT !.outcome = "WasmUnsupported"]
         [] out = "conn_error" -> [again EXCEPT !.outcome = "ConnectionError"]
         [] out = "http_error" -> [sent EXCEPT !.outcome = "QuantinuumAPIError"]
         [] OTHER -> [sent EXCEPT !.jobs = Append(@, NewJob),
                                  !.accepted = @ \cup {jobid},
                                  !.h = {ResultHandle(jobid, "null")}]

submit_qasm(c, n_shots, request_options, out) ==
    LET body == Body(c, n_shots, request_options)
        sent == [c EXCEPT !.bodies = Append(@, body), !.outs = Append(@, out),
                          !.calls.submit = @ + 1]
        jobid == ServiceJobId(Len(c.jobs) + 1)
        again == ServiceJobId(Len(c.jobs))
    IN CASE WasmRefused(c) -> [c EXCEPT !.outcome = "WasmUnsupported"]
         [] out = "conn_error" -> [sent EXCEPT !.outcome = "ConnectionError"]
         [] out = "http_error" -> [sent EXCEPT !.outcome = "QuantinuumAPIError"]
         [] out = "reissued" -> [sent EXCEPT !.accepted = @ \cup {again},
                                             !.h = {ResultHandle(again, "null")}]
         [] OTHER -> [sent EXCEPT !.jobs = Append(@, NewJob),
                                  !.accepted = @ \cup {jobid},
                                  !.h = {ResultHandle(jobid, "null")}]

\* A call record extended with the state the call works on: the service's
\* jobs, the cache, the handle submit_qasm returned and process_circuits'
\* handle_list.
Begin(op) ==
    Call(op) @@ [jobs |-> jobs, cache |-> cache, handler |-> handler,
                 h |-> {}, handle_list |-> <<>>]

\* The same for a call on a handle, with what the cache held for it.
BeginOn(op, handle) ==
    [Begin(op) EXCEPT !.arg = {handle},
                      !.known = handle \in DOMAIN cache,
                      !.hit = IF handle \in DOMAIN cache THEN cache[handle] ELSE {}]

\* The call record as kept in `last`.
Finish(c) == [k \in DOMAIN Call("init") |-> c[k]]

TheOne(S) == CHOOSE x \in S : TRUE

\* self._cache[handle] = entry; an entry is the set of results it holds:
\* {} for dict(), {res} for {"result": res}.
SetEntry(c, handle, entry) ==
    [h \in DOMAIN c \cup {handle} |-> IF h = handle THEN entry ELSE c[h]]

(***************************************************************************)
(* process_circuits (lines 549-640)                                        *)
(***************************************************************************)
\* Lines 600-605: the shot limit of the device, when it has one.
ExceedsMaxShots(n_shots) ==
    HasBackendInfo /\ "n_shots" \in DOMAIN misc /\ n_shots > misc["n_shots"]

\* Lines 606-610: the serialized post-processing circuit.
PPRep(postprocess) == IF postprocess THEN "ppcirc_dict" ELSE None

\* Lines 636-638 without the cache entry.
RecordHandleNoCache(c, handle) ==
    [c EXCEPT !.handle_list = Append(@, handle)]

\* Lines 636-638: handle_list.append(handle); self._cache[handle] = dict()
RecordHandle(c, handle) ==
    [c EXCEPT !.handle_list = Append(@, handle),
              !.cache = SetEntry(@, handle, {})]

\* Line 624: name=circ.name or None; a circuit this model gives no name is
\* unnamed.
CircName(circ) ==
    IF "name" \in DOMAIN circ /\ circ.name # "" THEN circ.name ELSE None

\* One iteration of the loop at line 601, after the shot check.
ProcessOne(c, circ, n_shots, postprocess, request_options, out) ==
    IF machine_debug
    THEN [c EXCEPT !.handle_list =
             Append(@, ResultHandle(DebugJobId(circ.n_qubits, n_shots),
                                    JsonDumps(PPRep(postprocess))))]
    ELSE LET s == submit_qasm([c EXCEPT !.name = CircName(circ)], n_shots,
                              request_options, out)
         IN IF s.outcome # "ok" THEN s
            ELSE RecordHandle(s, ResultHandle(TheOne(s.h).job,
                                              JsonDumps(PPRep(postprocess))))

RECURSIVE ProcessLoop(_, _, _, _, _, _)
ProcessLoop(c, circuits, n_shots_list, postprocess, request_options, outs) ==
    IF circuits = <<>> \/ c.outcome # "ok" THEN c
    ELSE IF ExceedsMaxShots(Head(n_shots_list))
    THEN [c EXCEPT !.outcome = "MaxShotsExceeded"]
    ELSE ProcessLoop(
             ProcessOne(c, Head(circuits), Head(n_shots_list), postprocess,
                        request_options, Head(outs)),
             Tail(circuits), Tail(n_shots_list), postprocess, request_options,
             Tail(outs))

\* required_predicates, lines 350-360, by the names of the predicates.
required_predicates ==
    {"NoSymbolsPredicate", "GateSetPredicate"}
        \cup (IF machine_debug THEN {} ELSE {"MaxNQubitsPredicate"})

\* Of a circuit the model keeps, in "violates", the predicates that do not
\* verify it; a circuit without the field verifies them all.
Violated(circ) == IF "violates" \in DOMAIN circ THEN circ.violates ELSE {}

\* Backend.valid_circuit
valid_circuit(circ) == Violated(circ) \cap required_predicates = {}

\* _check_all_circuits looking at the first circuit only.
CheckFirstCircuit(c, circuits) ==
    IF circuits # <<>> /\ ~valid_circuit(circuits[1])
    THEN [c EXCEPT !.outcome = "CircuitNotValidError"]
    ELSE c

\* Backend._check_all_circuits (called on lines 583-584): raises for the
\* first circuit that is not valid.
_check_all_circuits(c, circuits) ==
    IF \E i \in 1..Len(circuits) : ~valid_circuit(circuits[i])
    THEN [c EXCEPT !.outcome = "CircuitNotValidError"]
    ELSE c

\* process_circuits, lines 549-640; c.valid_check is its valid_check argument.
process_circuits(c, circuits, n_shots_list, postprocess, request_options, outs) ==
    LET called == [c EXCEPT !.postprocess = postprocess, !.n_circuits = Len(circuits),
                            !.circuits = circuits, !.shots = n_shots_list,
                            !.request_options = request_options]
        checked == IF c.valid_check THEN _check_all_circuits(called, circuits)
                   ELSE called
    IN IF checked.outcome # "ok" THEN checked
       ELSE ProcessLoop(checked, circuits, n_shots_list, postprocess,
                        request_options, outs)

\* What the caller gets: the returned handles, or nothing when the call raised.
Return(c, handles) ==
    Finish([c EXCEPT !.handles = IF c.outcome = "ok" THEN handles ELSE <<>>])

\* Room at the service for k more jobs when it accepts `limit` in all.
Room(limit, k) == machine_debug \/ Len(jobs) + k <= limit

\* The shot counts callers ask for: up to the device's limit and above it.
ShotCounts == {DeviceMaxShots, MaxReqShots}

\* The outcomes of the submit requests of one call over k circuits: no
\* request follows a failed one, and a request not made is written "ok".
SubmitScripts(k) ==
    {outs \in [1..k -> SubmitOutcomes] :
        \A i \in 1..k, j \in 1..k : (i < j /\ outs[i] # "ok") => outs[j] = "ok"}

ProcessCircuitsStep(circuits, n_shots_list, postprocess, outs) ==
    /\ LET c == process_circuits(Begin("process_circuits"), circuits, n_shots_list,
                                 postprocess, EmptyDict, outs)
       IN /\ jobs' = c.jobs
          /\ cache' = c.cache
          /\ last' = Return(c, c.handle_list)
    /\ UNCHANGED <<handler, inflight, machine_debug, process_circuits_options, device_name, _backend_info, misc, batchHeads>>

ProcessCircuitsFrom(circs, limit, maxCircs) ==
    \E k \in 1..maxCircs :
    \E circuits \in [1..k -> circs], n_shots_list \in [1..k -> ShotCounts],
       postprocess \in BOOLEAN, outs \in SubmitScripts(k) :
        /\ Room(limit, k)
        /\ ProcessCircuitsStep(circuits, n_shots_list, postprocess, outs)

ProcessCircuitsOf(limit, maxCircs) == ProcessCircuitsFrom(Circuits, limit, maxCircs)

ProcessCircuits == ProcessCircuitsOf(MaxJobs, MaxCircs)

\* A direct call of submit_qasm by the user.
SubmitQasm ==
    \E n_shots \in ShotCounts, out \in SubmitOutcomes :
        /\ Len(jobs) + 1 <= MaxJobs
        /\ LET c == submit_qasm([Begin("submit_qasm") EXCEPT !.n_circuits = 1],
                                n_shots, EmptyDict, out)
           IN /\ jobs' = c.jobs
              /\ cache' = c.cache
              /\ last' = Return(c, IF c.h = {} THEN <<>> ELSE <<TheOne(c.h)>>)
        /\ UNCHANGED <<handler, inflight, machine_debug, process_circuits_options, device_name, _backend_info, misc, batchHeads>>

\* The option dictionaries of this model: a key the body's defaults set and
\* a key they do not, with a value that names the layer.
OptionKeys == {"simulator", "ignoreme"}
OptionDicts(layer) == UNION {[keys -> {layer}] : keys \in SUBSET OptionKeys}

InstanceOptions == OptionDicts("instance")
CallOptions == OptionDicts("call")

\* The request_options of this model: none, a top-level key of the body, an
\* "options" entry, or both.
RequestOptions ==
    {EmptyDict,
     "priority" :> "request",
     "options" :> ("ignoreme" :> "request"),
     ("priority" :> "request") @@ ("options" :> ("ignoreme" :> "request"))}

\* process_circuits on one circuit with options and request_options kwargs.
ProcessCircuitsKw ==
    \E circ \in Circuits, n_shots \in ShotCounts, options \in CallOptions,
       request_options \in RequestOptions, out \in SubmitOutcomes :
        /\ Room(MaxPolled, 1)
        /\ LET c == process_circuits([Begin("process_circuits") EXCEPT !.options = options],
                                     <<circ>>, <<n_shots>>, FALSE, request_options, <<out>>)
           IN /\ jobs' = c.jobs
              /\ cache' = c.cache
              /\ last' = Return(c, c.handle_list)
        /\ UNCHANGED <<handler, inflight, machine_debug, process_circuits_options, device_name, _backend_info, misc, batchHeads>>

\* submit_qasm called directly with options and request_options.
SubmitQasmKw ==
    \E n_shots \in ShotCounts, options \in CallOptions,
       request_options \in RequestOptions, out \in SubmitOutcomes :
        /\ Room(MaxPolled, 1)
        /\ LET c == submit_qasm([Begin("submit_qasm") EXCEPT
                                    !.n_circuits = 1, !.options = options,
                                    !.request_options = request_options],
                                n_shots, request_options, out)
           IN /\ jobs' = c.jobs
              /\ cache' = c.cache
              /\ last' = Return(c, IF c.h = {} THEN <<>> ELSE <<TheOne(c.h)>>)
        /\ UNCHANGED <<handler, inflight, machine_debug, process_circuits_options, device_name, _backend_info, misc, batchHeads>>

\* process_circuits with or without a wasm_file_handler kwarg.
ProcessCircuitsWasm ==
    \E k \in 1..MaxCircs :
    \E circuits \in [1..k -> Circuits], n_shots \in ShotCounts, wasm \in BOOLEAN,
       outs \in SubmitScripts(k) :
        /\ Room(MaxJobs, k)
        /\ LET c == process_circuits([Begin("process_circuits") EXCEPT !.wasm = wasm],
                                     circuits, [i \in 1..k |-> n_shots], FALSE,
                                     EmptyDict, outs)
           IN /\ jobs' = c.jobs
              /\ cache' = c.cache
              /\ last' = Return(c, c.handle_list)
        /\ UNCHANGED <<handler, inflight, machine_debug, process_circuits_options, device_name, _backend_info, misc, batchHeads>>

\* submit_qasm called directly with or without a wasm_file_handler.
SubmitQasmWasm ==
    \E n_shots \in ShotCounts, wasm \in BOOLEAN, out \in SubmitOutcomes :
        /\ Room(MaxJobs, 1)
        /\ LET c == submit_qasm([Begin("submit_qasm") EXCEPT
                                    !.n_circuits = 1, !.wasm = wasm],
                                n_shots, EmptyDict, out)
           IN /\ jobs' = c.jobs
              /\ cache' = c.cache
              /\ last' = Return(c, IF c.h = {} THEN <<>> ELSE <<TheOne(c.h)>>)
        /\ UNCHANGED <<handler, inflight, machine_debug, process_circuits_options, device_name, _backend_info, misc, batchHeads>>

(***************************************************************************)
(* Batching (lines 642-715)                                                *)
(***************************************************************************)
\* _check_batchable, lines 642-645, never raising.
BatchingCheckSkipped == FALSE

\* _check_batchable, lines 642-645: TRUE when BatchingUnsupported is raised.
BatchingUnsupported == HasBackendInfo /\ ~MiscGet("batching", FALSE)

\* Lines 674-679: the status query on the batch head.  `c.polled` tells
\* whether the service answered it.
PollHeadSkipped(c, out) == [c EXCEPT !.polled = FALSE]

PollHead(c, out) ==
    LET q == [c EXCEPT !.calls.status = @ + 1, !.script = Append(@, out)]
    IN CASE out = "api_error" -> [q EXCEPT !.outcome = "QuantinuumAPIError"]
         [] out = "net_error" -> [q EXCEPT !.outcome = "ConnectionError"]
         [] OTHER -> [q EXCEPT !.polled = TRUE]

\* Lines 667-672 with batch-exec added to the caller's request_options.
StartBatchMerging(c, max_batch_cost, circuit, n_shots, postprocess, out, sout) ==
    IF BatchingUnsupported THEN [c EXCEPT !.outcome = "BatchingUnsupported"]
    ELSE LET p == process_circuits(c, <<circuit>>, <<n_shots>>, postprocess,
                                   Update(c.request_options,
                                          "batch-exec" :> max_batch_cost),
                                   <<out>>)
         IN IF p.outcome # "ok" THEN p ELSE PollHead(p, sout)

\* start_batch, lines 647-680: c.options and c.request_options are the
\* caller's kwargs, and kwargs["request_options"] is replaced on line 667.
start_batch(c, max_batch_cost, circuit, n_shots, postprocess, out, sout) ==
    IF BatchingUnsupported THEN [c EXCEPT !.outcome = "BatchingUnsupported"]
    ELSE LET p == process_circuits(c, <<circuit>>, <<n_shots>>, postprocess,
                                   "batch-exec" :> max_batch_cost, <<out>>)
         IN IF p.outcome # "ok" THEN p ELSE PollHead(p, sout)

BatchCosts == {500}

StartBatch ==
    \E circuit \in Circuits, n_shots \in ShotCounts, postprocess \in BOOLEAN,
       max_batch_cost \in BatchCosts, out \in SubmitOutcomes, sout \in StatusOutcomes :
        /\ Room(MaxJobs, 1)
        /\ LET c == start_batch([Begin("start_batch") @@ [polled |-> FALSE]
                                    EXCEPT !.given = "max_batch_cost" :> max_batch_cost],
                                max_batch_cost, circuit, n_shots, postprocess, out, sout)
           IN /\ jobs' = c.jobs
              /\ cache' = c.cache
              /\ last' = Return(c, c.handle_list)
              /\ batchHeads' = IF c.outcome = "ok"
                               THEN batchHeads \cup {[job |-> c.handle_list[1].job,
                                                      polled |-> c.polled]}
                               ELSE batchHeads
        /\ UNCHANGED <<handler, inflight, machine_debug, process_circuits_options, device_name, _backend_info, misc>>

\* The handles a caller can pass in: those of the service's jobs, with
\* either post-processing descriptor, and the debug markers.
ServiceHandles ==
    {ResultHandle(ServiceJobId(n), p) : n \in JobNumbers, p \in PPDescriptors}

\* Lines 709-715 with the end-of-batch marker always set.
AddToBatchAlwaysEnd(c, batch_start_job, circuit, n_shots, batch_end, postprocess, out) ==
    IF BatchingUnsupported THEN [c EXCEPT !.outcome = "BatchingUnsupported"]
    ELSE process_circuits(c, <<circuit>>, <<n_shots>>, postprocess,
                          ("batch-exec" :> batch_start_job.job) @@ ("batch-end" :> TRUE),
                          <<out>>)

add_to_batch(c, batch_start_job, circuit, n_shots, batch_end, postprocess, out) ==
    IF BatchingUnsupported THEN [c EXCEPT !.outcome = "BatchingUnsupported"]
    ELSE LET req_opt == IF batch_end
                        THEN ("batch-exec" :> batch_start_job.job) @@ ("batch-end" :> TRUE)
                        ELSE "batch-exec" :> batch_start_job.job
         IN process_circuits(c, <<circuit>>, <<n_shots>>, postprocess, req_opt, <<out>>)

AddToBatchOn(handles) ==
    \E batch_start_job \in handles, circuit \in Circuits, n_shots \in ShotCounts,
       batch_end \in BOOLEAN, postprocess \in BOOLEAN, out \in SubmitOutcomes :
        /\ Room(MaxJobs, 1)
        /\ LET c == add_to_batch([BeginOn("add_to_batch", batch_start_job)
                                     EXCEPT !.given = "batch_end" :> batch_end],
                                 batch_start_job, circuit, n_shots, batch_end,
                                 postprocess, out)
           IN /\ jobs' = c.jobs
              /\ cache' = c.cache
              /\ last' = Return(c, c.handle_list)
        /\ UNCHANGED <<handler, inflight, machine_debug, process_circuits_options, device_name, _backend_info, misc, batchHeads>>

AddToBatch == AddToBatchOn(ServiceHandles)

(***************************************************************************)
(* Status polling (lines 739-778)                                          *)
(***************************************************************************)
\* _update_cache_result, lines 739-745, dropping the result.
UpdateCacheResultDropped(c, handle, res) == c

\* _update_cache_result, lines 739-745
_update_cache_result(c, handle, res) == SetEntry(c, handle, {res})

\* _parse_status, lines 941-955, as far as the status goes.
_parse_status(response) == _STATUS_MAP[response.status]

\* "results" in response
HasResults(response) == response.results # {}

\* Lines 756-764 with the re-login repeated until the query succeeds or
\* another kind of failure ends it.
StatusQueryEager(c, o1, l, o2) ==
    LET q1 == [c EXCEPT !.calls.status = @ + 1, !.script = Append(@, o1)]
        lg == [q1 EXCEPT !.calls.login = @ + 1, !.script = Append(@, l)]
        q2 == [lg EXCEPT !.calls.status = @ + 1, !.script = Append(@, o2)]
        q3 == [q2 EXCEPT !.calls.login = @ + 1, !.calls.status = @ + 1,
                         !.script = @ \o <<"ok", "ok">>]
    IN CASE o1 = "net_error" -> [q1 EXCEPT !.outcome = "ConnectionError"]
         [] o1 = "api_error" /\ l = "fail" -> [lg EXCEPT !.outcome = "QuantinuumAPIError"]
         [] o1 = "api_error" /\ o2 = "api_error" -> [q3 EXCEPT !.got = "ok"]
         [] o1 = "api_error" /\ o2 = "net_error" -> [q2 EXCEPT !.outcome = "ConnectionError"]
         [] o1 = "api_error" -> [q2 EXCEPT !.got = o2]
         [] OTHER -> [q1 EXCEPT !.got = o1]

\* Lines 756-764: the status query, with one re-login and one retry when it
\* raises QuantinuumAPIError.  c.got is "ok" when a response dictionary came
\* back and "none" when None did.
StatusQuery(c, o1, l, o2) ==
    LET q1 == [c EXCEPT !.calls.status = @ + 1, !.script = Append(@, o1)]
        lg == [q1 EXCEPT !.calls.login = @ + 1, !.script = Append(@, l)]
        q2 == [lg EXCEPT !.calls.status = @ + 1, !.script = Append(@, o2)]
    IN CASE o1 = "net_error" -> [q1 EXCEPT !.outcome = "ConnectionError"]
         [] o1 = "api_error" /\ l = "fail" -> [lg EXCEPT !.outcome = "QuantinuumAPIError"]
         [] o1 = "api_error" /\ o2 = "api_error" -> [q2 EXCEPT !.outcome = "QuantinuumAPIError"]
         [] o1 = "api_error" /\ o2 = "net_error" -> [q2 EXCEPT !.outcome = "ConnectionError"]
         [] o1 = "api_error" -> [q2 EXCEPT !.got = o2]
         [] OTHER -> [q1 EXCEPT !.got = o1]

\* Lines 750-753 with the shortcut taken only by a backend in debug mode.
CircuitStatusDebugOnly(c, handle, o1, l, o2) ==
    IF machine_debug
    THEN [c EXCEPT !.status = "COMPLETED"]
    ELSE LET q == StatusQuery(c, o1, l, o2)
             known == Exists(handle.job)
             response == IF known THEN Response(c.jobs[handle.job.a])
                         ELSE [status |-> "failed", results |-> {}]
             circ_status == _parse_status(response)
             got == [q EXCEPT !.response = {response}, !.status = circ_status]
         IN IF q.outcome # "ok" THEN q
            ELSE IF q.got = "none" \/ ~known THEN [q EXCEPT !.outcome = "RuntimeError"]
            ELSE got

circuit_status(c, handle, o1, l, o2) ==
    IF machine_debug \/ StartsWithDebugPrefix(handle.job)
    THEN [c EXCEPT !.status = "COMPLETED"]
    ELSE LET q == StatusQuery(c, o1, l, o2)
             response == Response(c.jobs[handle.job.a])
             circ_status == _parse_status(response)
             got == [q EXCEPT !.response = {response}, !.status = circ_status]
         IN IF q.outcome # "ok" THEN q
            ELSE IF q.got = "none" THEN [q EXCEPT !.outcome = "RuntimeError"]
            ELSE IF circ_status = "COMPLETED" /\ HasResults(response)
            THEN [got EXCEPT !.cache = _update_cache_result(
                                 @, handle,
                                 _convert_result(TheOne(response.results),
                                                 JsonLoads(handle.pp)))]
            ELSE got

\* The outcomes of the calls one status poll can make: the first query, the
\* login and the retry; a call that is not made is written "ok".
StatusScripts ==
    {s \in StatusOutcomes \X LoginOutcomes \X StatusOutcomes :
        /\ s[1] # "api_error" => s[2] = "ok"
        /\ (s[1] # "api_error" \/ s[2] = "fail") => s[3] = "ok"}

CircuitStatusStep(handle, s) ==
    /\ LET c == circuit_status(
                    BeginOn("circuit_status", handle) @@ [got |-> "none"],
                    handle, s[1], s[2], s[3])
       IN /\ cache' = c.cache
          /\ last' = Finish(c)
    /\ UNCHANGED <<handler, inflight, machine_debug, process_circuits_options, device_name, _backend_info, misc, jobs, batchHeads>>

CircuitStatusOn(handles) ==
    \E handle \in handles, s \in StatusScripts : CircuitStatusStep(handle, s)

CircuitStatus == CircuitStatusOn(ServiceHandles)

(***************************************************************************)
(* Result retrieval (lines 717-732, 780-818)                               *)
(***************************************************************************)
\* Backend.get_result of the base class: the cached result, if there is one.
Cached(c, handle) == handle \in DOMAIN c /\ c[handle] # {}

\* Line 795: {"c": ["0" * n_qubits] * shots}
DebugPayload(n_qubits, shots) ==
    "c" :> [i \in 1..shots |-> [j \in 1..n_qubits |-> "0"]]

\* Lines 805-818 when only a COMPLETED job's results are accepted.
DecodeRetrievedStrict(c, handle, job_retrieve) ==
    IF _parse_status(job_retrieve) # "COMPLETED"
    THEN [c EXCEPT !.outcome = "GetResultFailed"]
    ELSE IF ~HasResults(job_retrieve)
    THEN [c EXCEPT !.outcome = "GetResultFailed"]
    ELSE LET backres == _convert_result(TheOne(job_retrieve.results), JsonLoads(handle.pp))
         IN [c EXCEPT !.cache = _update_cache_result(@, handle, backres),
                      !.ret = {backres}]

\* Lines 805-818 with the handle's entry dropped when the fetch fails.
DecodeRetrievedDropping(c, handle, job_retrieve) ==
    IF _parse_status(job_retrieve) \notin {"COMPLETED", "CANCELLED"}
       \/ ~HasResults(job_retrieve)
    THEN [c EXCEPT !.outcome = "GetResultFailed",
                   !.cache = [h \in DOMAIN @ \ {handle} |-> @[h]]]
    ELSE LET backres == _convert_result(TheOne(job_retrieve.results), JsonLoads(handle.pp))
         IN [c EXCEPT !.cache = _update_cache_result(@, handle, backres),
                      !.ret = {backres}]

\* Lines 805-818: the status check, the results payload, decoding, caching.
DecodeRetrieved(c, handle, job_retrieve) ==
    IF _parse_status(job_retrieve) \notin {"COMPLETED", "CANCELLED"}
    THEN [c EXCEPT !.outcome = "GetResultFailed"]
    ELSE IF ~HasResults(job_retrieve)
    THEN [c EXCEPT !.outcome = "GetResultFailed"]
    ELSE LET backres == _convert_result(TheOne(job_retrieve.results), JsonLoads(handle.pp))
         IN [c EXCEPT !.cache = _update_cache_result(@, handle, backres),
                      !.ret = {backres}]

\* The context manager override_timeouts of the API handler: on entry the
\* overrides that are given replace the handler's settings; on exit, normal
\* or failing, the settings are put back.
OverrideEnter(settings, kw) ==
    [settings EXCEPT
        !.timeout = IF "timeout" \in DOMAIN kw THEN kw["timeout"] ELSE @,
        !.retry_timeout = IF "wait" \in DOMAIN kw THEN kw["wait"] ELSE @]

OverrideExit(settings, saved) == saved

\* Lines 724-731 with the settings put back only when the retrieval returns.
RetrieveJobUnscoped(c, jobid, out) ==
    LET saved == c.handler
        inside == [c EXCEPT !.handler = OverrideEnter(@, c.kw)]
        r == [inside EXCEPT !.calls.retrieve = @ + 1, !.script = Append(@, out),
                            !.used = {inside.handler}]
        left == [r EXCEPT !.handler = OverrideExit(@, saved)]
    IN CASE out = "error" -> [r EXCEPT !.outcome = "QuantinuumAPIError"]
         [] out = "none" -> [left EXCEPT !.outcome = "RuntimeError"]
         [] OTHER -> [left EXCEPT !.response = {Response(c.jobs[jobid.a])}]

\* _retrieve_job, lines 717-732: retrieve_job runs inside override_timeouts;
\* c.kw holds the timeout and wait that get_result passes on.
_retrieve_job(c, jobid, out) ==
    LET saved == c.handler
        inside == [c EXCEPT !.handler = OverrideEnter(@, c.kw)]
        r == [inside EXCEPT !.calls.retrieve = @ + 1, !.script = Append(@, out),
                            !.used = {inside.handler}]
        left == [r EXCEPT !.handler = OverrideExit(@, saved)]
    IN CASE out = "error" -> [left EXCEPT !.outcome = "QuantinuumAPIError"]
         [] out = "none" -> [left EXCEPT !.outcome = "RuntimeError"]
         [] OTHER -> [left EXCEPT !.response = {Response(c.jobs[jobid.a])}]

\* Lines 785-787 always missing the cache.
GetResultUncached(c, handle, out) ==
    LET r == _retrieve_job(c, handle.job, out)
    IN IF r.outcome # "ok" THEN r
       ELSE DecodeRetrieved(r, handle, TheOne(r.response))

\* Lines 785-818 serving only the handles the instance has an entry for.
GetResultKnownOnly(c, handle, out) ==
    IF Cached(c.cache, handle) THEN [c EXCEPT !.ret = c.cache[handle]]
    ELSE IF handle \notin DOMAIN c.cache THEN [c EXCEPT !.outcome = "CircuitNotRunError"]
    ELSE GetResultUncached(c, handle, out)

get_result(c, handle, out) ==
    IF Cached(c.cache, handle) THEN [c EXCEPT !.ret = c.cache[handle]]
    ELSE IF StartsWithDebugPrefix(handle.job)
    THEN [c EXCEPT !.ret = {_convert_result(DebugPayload(handle.job.a, handle.job.b),
                                            JsonLoads(handle.pp))}]
    ELSE IF machine_debug
    THEN [c EXCEPT !.outcome = "ValueError"]  \* literal_eval of a service job id
    ELSE LET job_retrieve == _retrieve_job(c, handle.job, out)
         IN IF job_retrieve.outcome # "ok" THEN job_retrieve
            ELSE DecodeRetrieved(job_retrieve, handle, TheOne(job_retrieve.response))

GetResultStep(handle, out) ==
    /\ LET c == get_result(BeginOn("get_result", handle), handle, out)
       IN /\ cache' = c.cache
          /\ handler' = c.handler
          /\ last' = Finish(c)
    /\ UNCHANGED <<inflight, machine_debug, process_circuits_options, device_name, _backend_info, misc, jobs, batchHeads>>

GetResultOn(handles) ==
    \E handle \in handles, out \in RetrieveOutcomes : GetResultStep(handle, out)

GetResult == GetResultOn(ServiceHandles)

\* get_result with timeout and wait kwargs (lines 797-805).
TimeoutOverrides == {49}
WaitOverrides == {5}

Kwargs ==
    {EmptyDict}
    \cup {"timeout" :> t : t \in TimeoutOverrides}
    \cup {"wait" :> w : w \in WaitOverrides}
    \cup {("timeout" :> t) @@ ("wait" :> w) : t \in TimeoutOverrides, w \in WaitOverrides}

GetResultKwStep(handle, kw, out) ==
    /\ LET c == get_result([BeginOn("get_result", handle) EXCEPT !.kw = kw], handle, out)
       IN /\ cache' = c.cache
          /\ handler' = c.handler
          /\ last' = Finish(c)
    /\ UNCHANGED <<inflight, machine_debug, process_circuits_options, device_name, _backend_info, misc, jobs, batchHeads>>

GetResultKw ==
    \E handle \in ServiceHandles, kw \in Kwargs, out \in RetrieveOutcomes :
        GetResultKwStep(handle, kw, out)

(***************************************************************************)
(* get_result calls running concurrently on one API handler.  A call on a  *)
(* handle without cached result goes through _retrieve_job in three steps: *)
(* entering override_timeouts, retrieve_job, and leaving the with block    *)
(* with the rest of get_result.                                            *)
(***************************************************************************)
Callers == {"A", "B"}

\* The kwargs of the concurrent calls: none, or a timeout.
ConcurrentKwargs == {kw \in Kwargs : "wait" \notin DOMAIN kw}

\* Lines 785-805 and 726: get_result on an issued handle without cached
\* result, so _retrieve_job enters the with.
EnterRetrieval ==
    \E t \in Callers \ DOMAIN inflight, handle \in DOMAIN cache, kw \in ConcurrentKwargs :
        /\ ~Cached(cache, handle)
        /\ inflight' = (t :> [pc |-> "entered", handle |-> handle, kw |-> kw,
                              known |-> handle \in DOMAIN cache,
                              saved |-> handler, used |-> {}, out |-> "ok"])
                       @@ inflight
        /\ handler' = OverrideEnter(handler, kw)
        /\ UNCHANGED <<machine_debug, process_circuits_options, device_name, _backend_info, misc, jobs, cache, batchHeads, last>>

\* Line 728: retrieve_job runs with the settings the handler has by then.
RunRetrieval ==
    \E t \in DOMAIN inflight, out \in RetrieveOutcomes :
        /\ inflight[t].pc = "entered"
        /\ inflight' = [inflight EXCEPT ![t].pc = "retrieved",
                                        ![t].used = {handler},
                                        ![t].out = out]
        /\ UNCHANGED <<handler, machine_debug, process_circuits_options, device_name, _backend_info, misc, jobs, cache, batchHeads, last>>

\* Leaving the with block, then lines 730-732 and 806-818.
LeaveRetrieval ==
    \E t \in DOMAIN inflight :
        /\ inflight[t].pc = "retrieved"
        /\ LET f == inflight[t]
               b == [Begin("get_result") EXCEPT
                        !.arg = {f.handle}, !.known = f.known, !.kw = f.kw,
                        !.calls.retrieve = 1, !.script = <<f.out>>, !.used = f.used,
                        !.handler = OverrideExit(handler, f.saved)]
               job_retrieve == Response(jobs[f.handle.job.a])
               c == CASE f.out = "error" -> [b EXCEPT !.outcome = "QuantinuumAPIError"]
                      [] f.out = "none" -> [b EXCEPT !.outcome = "RuntimeError"]
                      [] OTHER -> DecodeRetrieved([b EXCEPT !.response = {job_retrieve}],
                                                  f.handle, job_retrieve)
           IN /\ handler' = c.handler
              /\ cache' = c.cache
              /\ last' = Finish(c)
        /\ inflight' = [u \in DOMAIN inflight \ {t} |-> inflight[u]]
        /\ UNCHANGED <<machine_debug, process_circuits_options, device_name, _backend_info, misc, jobs, batchHeads>>

(***************************************************************************)
(* cancel (lines 734-737) and the service's own progress                   *)
(***************************************************************************)
CancelOutcomes == {"ok", "error"}

\* The service's handling of a cancellation request: a job that is queued or
\* running starts cancelling; a finished job is left as it is.
CancelAt(js, jobid) ==
    IF jobid.kind = "job" /\ jobid.a \in 1..Len(js)
       /\ js[jobid.a].status \in {"queued", "running"}
    THEN [js EXCEPT ![jobid.a].status = "canceling"]
    ELSE js

\* The message of the error the service answers a refused cancellation
\* with: a job that has completed is reported as such.
CancelRefusal(js, jobid) ==
    IF jobid.kind = "job" /\ jobid.a \in 1..Len(js) /\ js[jobid.a].status = "completed"
    THEN "job has completed already"
    ELSE "cancellation refused"

\* The cancellation request: api_handler.cancel(jobid), line 737.
CancelRequest(c, jobid, out) ==
    LET q == [c EXCEPT !.calls.cancel = @ + 1, !.requests = Append(@, jobid)]
    IN IF out = "ok"
       THEN [q EXCEPT !.jobs = CancelAt(@, jobid)]
       ELSE [q EXCEPT !.outcome = "QuantinuumAPIError",
                      !.message = CancelRefusal(c.jobs, jobid)]

\* Lines 734-737 followed by a status query on the job.
CancelAndPoll(c, handle, out) ==
    LET r == CancelRequest(c, handle.job, out)
    IN IF r.outcome # "ok" THEN r
       ELSE [r EXCEPT !.calls.status = @ + 1, !.script = Append(@, "ok")]

\* Lines 734-737 with the API error raised anew under a message of cancel's own.
CancelRewrapped(c, handle, out) ==
    LET r == CancelRequest(c, handle.job, out)
    IN IF r.outcome # "ok" THEN [r EXCEPT !.message = "cancellation refused"] ELSE r

\* cancel, lines 734-737: the API handler is always set (line 232).
cancel(c, handle, out) == CancelRequest(c, handle.job, out)

CancelOn(handles) ==
    \E handle \in handles, out \in CancelOutcomes :
        /\ LET b == BeginOn("cancel", handle)
               c == cancel([b EXCEPT !.before =
                               IF Exists(handle.job)
                               THEN {jobs[handle.job.a].status} ELSE {}],
                           handle, out)
           IN /\ jobs' = c.jobs
              /\ cache' = c.cache
              /\ last' = Finish(c)
        /\ UNCHANGED <<handler, inflight, machine_debug, process_circuits_options, device_name, _backend_info, misc, batchHeads>>

Cancel == CancelOn(ServiceHandles)

\* The results a finished job may carry: none, or one of the payloads.
FinalResults == {{}} \cup {{p} : p \in Payloads}

\* The service moves a job on (section 4.4's state machine).
JobProgress ==
    \E n \in JobNumbers :
        /\ \/ /\ jobs[n].status = "queued"
              /\ jobs' = [jobs EXCEPT ![n].status = "running"]
           \/ /\ jobs[n].status = "running"
              /\ \/ jobs' = [jobs EXCEPT ![n].status = "failed"]
                 \/ \E r \in FinalResults :
                        jobs' = [jobs EXCEPT ![n].status = "completed", ![n].results = r]
        /\ UNCHANGED <<handler, inflight, machine_debug, process_circuits_options, device_name, _backend_info, misc, cache, batchHeads, last>>

\* A job being cancelled ends as canceled, or as completed when it finished
\* first; either way with or without results.
CancelProgress ==
    \E n \in JobNumbers, st \in {"canceled", "completed"}, r \in FinalResults :
        /\ jobs[n].status = "canceling"
        /\ jobs' = [jobs EXCEPT ![n].status = st, ![n].results = r]
        /\ UNCHANGED <<handler, inflight, machine_debug, process_circuits_options, device_name, _backend_info, misc, cache, batchHeads, last>>

\* The backend instance is replaced by a newly constructed one (a process
\* restart): __init__ leaves it with an empty cache.  The service keeps its jobs.
Restart ==
    /\ jobs # <<>>
    /\ jobs' = [n \in JobNumbers |-> [jobs[n] EXCEPT !.prior = TRUE]]
    /\ cache' = EmptyDict
    /\ last' = Call("init")
    /\ UNCHANGED <<handler, inflight, machine_debug, process_circuits_options, device_name, _backend_info, misc, batchHeads>>

(***************************************************************************)
(* Specifications                                                          *)
(***************************************************************************)
\* Submissions to a service that leaves its jobs queued.
NextSubmit ==
    \/ ProcessCircuits
    \/ SubmitQasm
    \/ StartBatch
    \/ AddToBatch

SpecSubmit == Init /\ [][NextSubmit]_vars

\* Single submissions, status polls and result fetches against a service
\* whose jobs run.
Submit == ProcessCircuitsOf(MaxPolled, 1)

NextPoll ==
    \/ Submit
    \/ JobProgress
    \/ CircuitStatus
    \/ GetResult

SpecPoll == InitWith({BatchingDevice}) /\ [][NextPoll]_vars

\* Result fetches of jobs that run or are cancelled.
NextRetrieve ==
    \/ Submit
    \/ JobProgress
    \/ Cancel
    \/ CancelProgress
    \/ GetResult

SpecRetrieve == InitWith({BatchingDevice}) /\ [][NextRetrieve]_vars

\* Result fetches by a backend instance and by the instances that replace it.
NextRestart ==
    \/ Submit
    \/ JobProgress
    \/ GetResult
    \/ Restart

SpecRestart == InitWith({BatchingDevice}) /\ [][NextRestart]_vars

\* Result fetches with and without timeout overrides, one at a time.
NextTimeouts ==
    \/ Submit
    \/ JobProgress
    \/ GetResultKw

SpecTimeouts == InitWith({BatchingDevice}) /\ [][NextTimeouts]_vars

\* Result fetches by two callers at a time on one API handler.
NextConcurrent ==
    \/ Submit
    \/ JobProgress
    \/ EnterRetrieval
    \/ RunRetrieval
    \/ LeaveRetrieval

SpecConcurrent == InitWith({BatchingDevice}) /\ [][NextConcurrent]_vars

\* The debug-marker handles: _MACHINE_DEBUG_(n_qubits, n_shots) with either
\* post-processing descriptor.
DebugHandles ==
    {ResultHandle(DebugJobId(q, s), p) :
        q \in 0..MaxQubits, s \in ShotCounts, p \in PPDescriptors}

\* The debug-marker handles that start_batch has returned.
DebugHeads == {h \in DebugHandles : \E b \in batchHeads : b.job = h.job}

\* Every public operation on a backend in debug mode, and submissions, status
\* polls, result fetches and cancellations on one that is not, with
\* debug-marker handles passed in.
DebugSubmit == ProcessCircuitsFrom(DebugCircuits, MaxPolled, 1)

NextDebug ==
    \/ DebugSubmit
    \/ machine_debug /\ StartBatch
    \/ machine_debug /\ AddToBatchOn(DebugHeads)
    \/ CircuitStatusOn(DebugHandles)
    \/ GetResultOn(DebugHandles)
    \/ CancelOn(DebugHandles)

SpecDebug == InitDebug /\ [][NextDebug]_vars

\* A backend constructed while the service holds one completed job, which an
\* earlier instance submitted, with any of the decoding payloads.
InitDecode ==
    /\ machine_debug = FALSE
    /\ process_circuits_options = EmptyDict
    /\ device_name = DefaultDevice
    /\ misc = BatchingDevice
    /\ _backend_info = Descriptor
    /\ \E p \in DecodePayloads :
          jobs = <<[status |-> "completed", results |-> {p}, prior |-> TRUE]>>
    /\ cache = EmptyDict
    /\ batchHeads = {}
    /\ last = Call("init")
    /\ handler = DefaultSettings
    /\ inflight = Idle

\* Result fetches, which decode the payload.
NextDecode == GetResult

SpecDecode == InitDecode /\ [][NextDecode]_vars

\* A backend constructed with any of the option dictionaries.
InitOptions ==
    /\ machine_debug = FALSE
    /\ process_circuits_options \in InstanceOptions
    /\ device_name = DefaultDevice
    /\ misc = BatchingDevice
    /\ _backend_info = Descriptor
    /\ jobs = <<>>
    /\ cache = EmptyDict
    /\ batchHeads = {}
    /\ last = Call("init")
    /\ handler = DefaultSettings
    /\ inflight = Idle

\* Submissions with options and request_options.
NextOptions ==
    \/ ProcessCircuitsKw
    \/ SubmitQasmKw

SpecOptions == InitOptions /\ [][NextOptions]_vars

\* Submissions with and without a WASM module, to a device that advertises
\* wasm support and to one that does not.
InitWasm ==
    /\ machine_debug = FALSE
    /\ process_circuits_options = EmptyDict
    /\ device_name = DefaultDevice
    /\ misc \in {BatchingDevice, WasmDevice}
    /\ _backend_info = Descriptor
    /\ jobs = <<>>
    /\ cache = EmptyDict
    /\ batchHeads = {}
    /\ last = Call("init")
    /\ handler = DefaultSettings
    /\ inflight = Idle

NextWasm ==
    \/ ProcessCircuitsWasm
    \/ SubmitQasmWasm

SpecWasm == InitWasm /\ [][NextWasm]_vars

\* A status poll that the service answers at once.
AnsweredScripts == {<<"ok", "ok", "ok">>}

CircuitStatusAnswered ==
    \E handle \in DOMAIN cache, s \in AnsweredScripts : CircuitStatusStep(handle, s)

\* Status polls and result fetches of jobs that run, are cancelled, or both.
\* get_result on a handle the instance has issued, its retrieval answered.
GetResultAnswered == \E handle \in DOMAIN cache : GetResultStep(handle, "ok")

\* cancel on a handle the instance has issued.
CancelIssued == CancelOn(DOMAIN cache)

NextStatus ==
    \/ Submit
    \/ JobProgress
    \/ CancelIssued
    \/ CancelProgress
    \/ CircuitStatusAnswered
    \/ GetResultAnswered

SpecStatus == InitWith({BatchingDevice}) /\ [][NextStatus]_vars

(***************************************************************************)
(* Properties                                                              *)
(***************************************************************************)
SubmissionOps == {"process_circuits", "start_batch", "add_to_batch", "submit_qasm"}

\* The handle the most recent call was given.
LastArg == TheOne(last.arg)

\* The job record the most recent call brought back from the service.
Seen == TheOne(last.response)

\* What decoding the results of job record r gives for handle h.
DecodeFor(h, r) == _convert_result(TheOne(r.results), JsonLoads(h.pp))

\* What decoding the results of handle h's job gives.
Decoded(h) == DecodeFor(h, jobs[h.job.a])

\* C1: when get_result has just returned a result for a handle of a service
\* job, the next get_result on that handle returns the identical result and
\* makes no call on the API handler.
C1_SecondFetchFromCache ==
    [][\A h \in ServiceHandles, out \in RetrieveOutcomes :
          (/\ last.op = "get_result" /\ last.outcome = "ok" /\ last.arg = {h}
           /\ last'.op = "get_result" /\ last'.arg = {h}
           /\ GetResultStep(h, out))
          => (/\ last'.outcome = "ok"
              /\ last'.ret = last.ret
              /\ last'.ret # {}
              /\ last'.calls = NoCalls)]_vars

\* C1 witness: a get_result on a completed service job that was answered
\* from the cache.
C1_Witness ==
    /\ last.op = "get_result" /\ last.outcome = "ok"
    /\ last.calls = NoCalls
    /\ jobs[LastArg.job.a].status = "completed"
    /\ last.ret = {Decoded(LastArg)}

\* A circuit_status that has seen 'completed' with a results payload has
\* returned COMPLETED and left the decoded result in the handle's entry.
PollFillsCache ==
    (/\ last.op = "circuit_status" /\ last.response # {}
     /\ Seen.status = "completed" /\ HasResults(Seen))
    => (/\ last.outcome = "ok" /\ last.status = "COMPLETED"
        /\ LastArg \in DOMAIN cache
        /\ cache[LastArg] = {DecodeFor(LastArg, Seen)})

\* A get_result on a handle with a cached result returns that result and
\* makes no call on the API handler.
HitServedLocally ==
    (last.op = "get_result" /\ last.hit # {})
    => (last.outcome = "ok" /\ last.ret = last.hit /\ last.calls = NoCalls)

\* A cached result stays in the cache, unchanged.
CachedStays ==
    \A h \in DOMAIN cache :
        cache[h] # {} => (h \in DOMAIN cache' /\ cache'[h] = cache[h])

\* C2: a circuit_status that observes 'completed' with a results payload
\* leaves the decoded result in the handle's cache entry, known handle or
\* not; a cached result stays, and get_result on a handle with a cached
\* result returns it without any call on the API handler.
C2_StatusPollFillsCache ==
    [](PollFillsCache /\ HitServedLocally) /\ [][CachedStays]_vars

\* C2 witness: a get_result served from the entry that a status poll created
\* for a handle no submission had entered in the cache (the job's issued
\* handle has its own, still empty entry).
C2_Witness ==
    /\ last.op = "get_result" /\ last.outcome = "ok" /\ last.calls = NoCalls
    /\ last.ret = {Decoded(LastArg)}
    /\ \E h \in DOMAIN cache : h.job = LastArg.job /\ h # LastArg /\ cache[h] = {}

\* C3 as claimed: whenever the first status query fails with an API error,
\* login is invoked once and the query is retried once.
C3_Original ==
    (last.op = "circuit_status" /\ last.script[1] = "api_error")
    => (last.calls.login = 1 /\ last.calls.status = 2)

\* C3 amended: a first query that raises an API error is followed by exactly
\* one login; the query is retried exactly once if that login succeeds and
\* not at all if it fails; a failing login or retry ends the call with that
\* error; no call makes more than two queries or more than one login, and no
\* login follows a first query that did not raise an API error.
C3_OneReloginOneRetry ==
    last.op = "circuit_status" =>
        LET n == last.calls
            s == last.script
        IN /\ n.status <= 2 /\ n.login <= 1
           /\ Len(s) = n.status + n.login
           /\ s[1] # "api_error" => (n.login = 0 /\ n.status = 1)
           /\ s[1] = "api_error" =>
                 /\ n.login = 1
                 /\ IF s[2] = "fail"
                    THEN n.status = 1 /\ last.outcome = "QuantinuumAPIError"
                    ELSE /\ n.status = 2
                         /\ s[3] = "api_error" => last.outcome = "QuantinuumAPIError"
                         /\ s[3] = "net_error" => last.outcome = "ConnectionError"
                         /\ s[3] = "ok" => last.outcome = "ok"

\* C3 witness: a status poll that logged in again, retried and succeeded.
C3_Witness ==
    /\ last.op = "circuit_status" /\ last.outcome = "ok"
    /\ last.script = <<"api_error", "ok", "ok">>
    /\ last.calls.login = 1 /\ last.calls.status = 2

\* get_result has retrieved a job record for a handle without cached result.
Retrieved == last.op = "get_result" /\ last.hit = {} /\ last.script = <<"ok">>

\* C4 as claimed: with a job record retrieved for an uncached handle,
\* get_result raises GetResultFailed when the status is neither COMPLETED
\* nor CANCELLED or when a COMPLETED record has no results, and returns the
\* decoded table in every other case.
C4_Original ==
    Retrieved =>
        /\ last.response # {}
        /\ IF \/ _parse_status(Seen) \notin {"COMPLETED", "CANCELLED"}
              \/ (_parse_status(Seen) = "COMPLETED" /\ ~HasResults(Seen))
           THEN last.outcome = "GetResultFailed"
           ELSE last.outcome = "ok" /\ last.ret = {DecodeFor(LastArg, Seen)}

\* C4 amended: with a job record retrieved for an uncached handle, get_result
\* raises GetResultFailed when the status is neither COMPLETED nor CANCELLED
\* or when the record, COMPLETED or CANCELLED, has no results payload, and
\* returns the decoded table in every other case.
C4_FailsWithoutUsableResults ==
    Retrieved =>
        /\ last.response # {}
        /\ last.calls.retrieve = 1
        /\ IF \/ _parse_status(Seen) \notin {"COMPLETED", "CANCELLED"}
              \/ ~HasResults(Seen)
           THEN last.outcome = "GetResultFailed" /\ last.ret = {}
           ELSE last.outcome = "ok" /\ last.ret = {DecodeFor(LastArg, Seen)}

\* C4 witness: get_result has returned the decoded table of a cancelled job
\* that carries results.
C4_Witness ==
    /\ Retrieved /\ last.outcome = "ok"
    /\ Seen.status = "canceled"
    /\ last.ret = {DecodeFor(LastArg, Seen)}

\* C6: get_result on a handle the instance has no cache entry for queries
\* the service once, and whatever instance runs it and whatever its cache
\* holds, a get_result that returns gives the decoding of the job's results
\* under the handle's post-processing descriptor; it returns whenever the
\* service hands out a completed job's results.
C6_HandleSufficesAfterRestart ==
    last.op = "get_result" =>
        /\ last.outcome = "ok" => last.ret = {Decoded(LastArg)}
        /\ ~last.known => last.calls.retrieve = 1
        /\ (/\ last.response # {}
            /\ Seen.status = "completed"
            /\ HasResults(Seen))
           => last.outcome = "ok"

\* C6 witness: a fresh instance, with no entry for the handle, has fetched
\* from the service the result of a job that an earlier instance submitted.
C6_Witness ==
    /\ last.op = "get_result" /\ last.outcome = "ok"
    /\ ~last.known
    /\ last.calls.retrieve = 1
    /\ jobs[LastArg.job.a].prior
    /\ last.ret = {Decoded(LastArg)}

\* The handles the most recent call returned, as a set.
Returned == {last.handles[i] : i \in 1..Len(last.handles)}

Submitted == last.op \in SubmissionOps /\ last.outcome = "ok"

\* C5 as claimed: after a successful submission by process_circuits,
\* start_batch, add_to_batch or submit_qasm, every returned handle pairs a
\* job id the service returned with a descriptor that is "null" exactly when
\* postprocess was not requested, and has an empty cache entry.
C5_Original ==
    Submitted =>
        /\ Returned # {}
        /\ {h.job : h \in Returned} = last.accepted
        /\ \A h \in Returned :
              /\ (h.pp = "null") <=> ~last.postprocess
              /\ h \in DOMAIN cache /\ cache[h] = {}

\* C5 amended: the same for process_circuits, start_batch and add_to_batch;
\* a handle returned by submit_qasm pairs the job id the service returned
\* with "null" and has no cache entry.
C5_HandleAndEmptyEntry ==
    Submitted =>
        /\ Returned # {}
        /\ {h.job : h \in Returned} = last.accepted
        /\ Len(last.handles) = last.n_circuits
        /\ \A h \in Returned :
              IF last.op = "submit_qasm"
              THEN h.pp = "null" /\ h \notin DOMAIN cache
              ELSE /\ (h.pp = "null") <=> ~last.postprocess
                   /\ h \in DOMAIN cache /\ cache[h] = {}

\* C5 witness: process_circuits has returned the handles of two circuits
\* submitted with postprocess.
C5_Witness ==
    /\ last.op = "process_circuits" /\ last.outcome = "ok"
    /\ last.postprocess
    /\ Len(last.handles) = 2
    /\ \A h \in Returned : h \in DOMAIN cache /\ h.pp # "null"

\* C7 as claimed: a process_circuits call in which some circuit's shot count
\* is above the device's n_shots capability raises MaxShotsExceeded and has
\* sent no submit request.
C7_Claim ==
    [][\A k \in 1..MaxCircs :
       \A circuits \in [1..k -> Circuits], n_shots_list \in [1..k -> ShotCounts],
          postprocess \in BOOLEAN, outs \in SubmitScripts(k) :
          (/\ ProcessCircuitsStep(circuits, n_shots_list, postprocess, outs)
           /\ "n_shots" \in DOMAIN misc
           /\ \E i \in 1..k : n_shots_list[i] > misc["n_shots"])
          => (/\ last'.outcome = "MaxShotsExceeded"
              /\ last'.calls.submit = 0
              /\ jobs' = jobs)]_vars

\* The submit requests of the most recent call that the service refused or
\* that did not reach it.
FailedRequests == {i \in 1..Len(last.outs) : last.outs[i] # "ok"}

C9_Claim ==
    last.op \in {"process_circuits", "start_batch", "add_to_batch"} =>
        \A j \in last.accepted : \E h \in Returned : h.job = j

\* The batch heads start_batch has returned.
HeadJobs == {b.job : b \in batchHeads}

\* C10: a start_batch that returns has had its job accepted and has made one
\* status query, which the service answered; one that fails at submission
\* makes none; so the head named by an add_to_batch that submits, when it
\* comes from start_batch, has had a status query answered.
C10_HeadPolledBeforeContinuation ==
    /\ last.op = "start_batch" =>
          /\ last.outcome = "ok" =>
                (/\ last.calls.status = 1
                 /\ last.calls.submit = 1
                 /\ Cardinality(last.accepted) = 1
                 /\ \A h \in Returned : h.job \in HeadJobs)
          /\ last.accepted = {} => last.calls.status = 0
    /\ \A b \in batchHeads : b.polled
    /\ (/\ last.op = "add_to_batch"
        /\ last.bodies # <<>>
        /\ LastArg.job \in HeadJobs)
       => (/\ last.bodies[1]["batch-exec"] = LastArg.job
           /\ \A b \in batchHeads : b.job = LastArg.job => b.polled)

\* C10 witness: add_to_batch has submitted a continuation of a batch whose
\* head start_batch returned.
C10_Witness ==
    /\ last.op = "add_to_batch" /\ last.outcome = "ok"
    /\ LastArg.job \in HeadJobs
    /\ last.bodies[1]["batch-exec"] = LastArg.job

BatchOps == {"start_batch", "add_to_batch"}

\* C11: on a device whose capability map does not advertise batching, every
\* start_batch and add_to_batch raises BatchingUnsupported, returns no handle,
\* makes no call on the API handler (no submit, no status query) and leaves
\* the service's jobs and the cache as they were.
C11_NoBatchingNoEffect ==
    [][(last'.op \in BatchOps /\ ~MiscGet("batching", FALSE))
       => (/\ last'.outcome = "BatchingUnsupported"
           /\ last'.handles = <<>>
           /\ last'.calls = NoCalls
           /\ last'.bodies = <<>>
           /\ jobs' = jobs
           /\ cache' = cache)]_vars

\* C11 witness: add_to_batch has raised BatchingUnsupported on a backend
\* whose cache holds the entry of an earlier submission.
C11_Witness ==
    /\ last.op = "add_to_batch" /\ last.outcome = "BatchingUnsupported"
    /\ ~MiscGet("batching", FALSE)
    /\ LastArg \in DOMAIN cache

\* C12: the one request of a start_batch carries batch-exec equal to the
\* cost ceiling; the one request of an add_to_batch carries batch-exec equal
\* to the job id of the batch-head handle and carries batch-end, set to true,
\* exactly when batch_end is true; a batch call that returns has sent its
\* request.
C12_BatchFields ==
    last.op \in BatchOps =>
        /\ Len(last.bodies) <= 1
        /\ last.outcome = "ok" => Len(last.bodies) = 1
        /\ (last.op = "start_batch" /\ last.bodies # <<>>)
           => last.bodies[1]["batch-exec"] = last.given["max_batch_cost"]
        /\ (last.op = "add_to_batch" /\ last.bodies # <<>>)
           => /\ last.bodies[1]["batch-exec"] = LastArg.job
              /\ ("batch-end" \in DOMAIN last.bodies[1]) <=> last.given["batch_end"]
              /\ "batch-end" \in DOMAIN last.bodies[1] => last.bodies[1]["batch-end"] = TRUE

\* C12 witness: add_to_batch has submitted a continuation that is not the
\* last of its batch, naming a head that start_batch returned.
C12_Witness ==
    /\ last.op = "add_to_batch" /\ last.outcome = "ok"
    /\ ~last.given["batch_end"]
    /\ "batch-end" \notin DOMAIN last.bodies[1]
    /\ last.bodies[1]["batch-exec"] = LastArg.job
    /\ LastArg.job \in HeadJobs

\* C13: no get_result call, with or without timeout and wait overrides,
\* returning or raising, changes the API handler's settings; they keep the
\* values the handler was constructed with, and a retrieval made without
\* overrides runs with those.
C13_SettingsRestored ==
    /\ handler = DefaultSettings
    /\ (last.op = "get_result" /\ last.calls.retrieve = 1 /\ last.kw = EmptyDict)
       => last.used = {DefaultSettings}

\* C13 witness: a get_result that overrode both settings has raised, its
\* retrieval ran with the overrides, and the handler has its settings back.
C13_Witness ==
    /\ last.op = "get_result" /\ last.outcome = "QuantinuumAPIError"
    /\ DOMAIN last.kw = {"timeout", "wait"}
    /\ \A u \in last.used :
          u.timeout \in TimeoutOverrides /\ u.retry_timeout \in WaitOverrides
    /\ last.used # {}
    /\ handler = DefaultSettings

\* C14 as claimed: the retrieval of a get_result call that passed no
\* override runs with the handler's default settings, whatever other
\* get_result calls are running on the same API handler.
C14_Claim ==
    \A t \in DOMAIN inflight :
        (inflight[t].pc = "retrieved" /\ inflight[t].kw = EmptyDict)
        => inflight[t].used = {DefaultSettings}

(***************************************************************************)
(* Debug mode                                                              *)
(***************************************************************************)
\* The shot table of s rows and b columns filled with zeros.
ZeroTable(s, b) == [i \in 1..s |-> [j \in 1..b |-> 0]]

\* C15 as claimed: when process_circuits on a debug-mode backend has just
\* returned the handle of a circuit with q qubits and b classical bits run
\* for s shots, get_result on that handle returns a shot table of shape
\* (s, b) filled with zeros.
C15_Claim ==
    [][(/\ machine_debug
        /\ last.op = "process_circuits" /\ last.outcome = "ok"
        /\ last'.op = "get_result" /\ last'.arg = {last.handles[1]})
       => \E res \in last'.ret :
             res.shots = ZeroTable(last.shots[1], last.circuits[1].n_bits)]_vars

\* The handle process_circuits returns in debug mode for a circuit.
DebugHandleFor(circ, n_shots, postprocess) ==
    ResultHandle(DebugJobId(circ.n_qubits, n_shots), JsonDumps(PPRep(postprocess)))

\* The result of a debug-marker handle, as a function of the handle.
DebugResultOf(h) ==
    [c_bits |-> [j \in 1..h.job.a |-> <<"c", h.job.a - j>>],
     shots |-> ZeroTable(h.job.b, h.job.a),
     ppcirc |-> JsonLoads(h.pp)]

\* C16: on a debug-mode backend process_circuits succeeds without a call on
\* the API handler and its handles are a function of (number of qubits,
\* shots, postprocess); on a debug-marker handle, whether the backend is in
\* debug mode or not, circuit_status returns COMPLETED and get_result
\* returns a result that is a function of the handle, both without a call
\* on the API handler.
C16_DebugRoundTrip ==
    /\ (machine_debug /\ last.op = "process_circuits") =>
          /\ last.outcome = "ok"
          /\ last.calls = NoCalls
          /\ last.handles = [i \in 1..last.n_circuits |->
                                DebugHandleFor(last.circuits[i], last.shots[i],
                                               last.postprocess)]
    /\ (last.op = "circuit_status" /\ last.arg \subseteq DebugHandles) =>
          /\ last.outcome = "ok"
          /\ last.status = "COMPLETED"
          /\ last.calls = NoCalls
    /\ (last.op = "get_result" /\ last.arg \subseteq DebugHandles) =>
          /\ last.outcome = "ok"
          /\ last.ret = {DebugResultOf(h) : h \in last.arg}
          /\ last.calls = NoCalls

\* A debug-marker handle with qubits was presented to get_result of a
\* backend that is not in debug mode, which has submitted a job of its own,
\* and a result came back.
C16_Witness ==
    /\ ~machine_debug
    /\ Len(jobs) > 0
    /\ last.op = "get_result" /\ last.outcome = "ok"
    /\ \E h \in last.arg : h \in DebugHandles /\ h.job.a > 0
    /\ last.ret # {}

\* C17 as claimed: on a backend constructed with machine_debug = True no
\* public operation calls the API handler, _backend_info stays None and the
\* result cache stays empty.
C17_Claim ==
    machine_debug =>
        /\ last.calls = NoCalls
        /\ ~HasBackendInfo
        /\ DOMAIN cache = {}

(***************************************************************************)
(* Decoding                                                                *)
(***************************************************************************)
\* Register r comes after register q in the order of names.
NameAfter(r, q) ==
    \E i, k \in 1..Len(RegOrder) : RegOrder[i] = r /\ RegOrder[k] = q /\ i > k

RECURSIVE SumOver(_, _)
SumOver(S, f) ==
    IF S = {} THEN 0 ELSE LET x == TheOne(S) IN f[x] + SumOver(S \ {x}, f)

\* The table res lays payload p out as claimed: one row per shot; register
\* r's column j (1..w) stands after the columns of all registers of greater
\* name, is labelled bit w - j and holds character j of each bit-string.
LaidOut(p, res) ==
    LET regs == DOMAIN p
        width == [r \in regs |-> Len(p[r][1])]
        offset == [r \in regs |-> SumOver({q \in regs : NameAfter(q, r)}, width)]
        total == SumOver(regs, width)
    IN /\ \A r \in regs : Len(res.shots) = Len(p[r])
       /\ Len(res.c_bits) = total
       /\ \A i \in 1..Len(res.shots) : Len(res.shots[i]) = total
       /\ \A r \in regs : \A j \in 1..width[r] :
             /\ res.c_bits[offset[r] + j] = <<r, width[r] - j>>
             /\ \A i \in 1..Len(res.shots) :
                   res.shots[i][offset[r] + j] = (IF p[r][i][j] = "1" THEN 1 ELSE 0)

\* C18: the result get_result returns for a job lays the job's payload out
\* with one row per shot, the registers in descending order of name, each
\* most significant bit first, and as many columns in every row as the
\* registers have bits in all.
C18_DecodeOrder ==
    (last.op = "get_result" /\ last.outcome = "ok") =>
        \A h \in last.arg : \A res \in last.ret :
            LaidOut(TheOne(jobs[h.job.a].results), res)

\* Registers a (2 bits) and b (3 bits) over two shots were decoded to the
\* columns b[2], b[1], b[0], a[1], a[0].
C18_Witness ==
    /\ last.op = "get_result" /\ last.outcome = "ok"
    /\ \E res \in last.ret :
          /\ res.c_bits = << <<"b", 2>>, <<"b", 1>>, <<"b", 0>>, <<"a", 1>>, <<"a", 0>> >>
          /\ res.shots = << <<1, 1, 0, 0, 1>>, <<0, 0, 1, 1, 0>> >>

(***************************************************************************)
(* Request options                                                         *)
(***************************************************************************)
\* Dictionary d holds value v under key k.
Holds(d, k, v) == k \in DOMAIN d /\ d[k] = v

\* A submission with options has sent a request body.
SentWithOptions ==
    last.op \in {"process_circuits", "submit_qasm"} /\ last.bodies # <<>>

\* C19 as claimed: in the body sent, request_options win over the options
\* argument, which wins over the constructor's options, and a key set at a
\* lower layer and at no higher one keeps the lower layer's value.
C19_Original ==
    SentWithOptions =>
        LET body == last.bodies[1]
            lower == DOMAIN last.options
            upper == DOMAIN last.request_options
        IN /\ \A k \in upper : Holds(body, k, last.request_options[k])
           /\ \A k \in lower \ upper : Holds(body["options"], k, last.options[k])
           /\ \A k \in DOMAIN process_circuits_options \ (lower \cup upper) :
                 Holds(body["options"], k, process_circuits_options[k])

\* C19: request_options replace the body's top-level keys, so the body holds
\* every request_options entry and keeps its own priority when none is
\* given; when request_options has no "options" entry, body["options"] holds
\* every entry of the options argument, the constructor's entries for the
\* keys the argument does not set, and the defaults for the keys neither
\* sets; when it has one, body["options"] is that entry.
C19_LayeredMerge ==
    SentWithOptions =>
        LET body == last.bodies[1]
            lower == DOMAIN last.options
            upper == DOMAIN last.request_options
            inst == DOMAIN process_circuits_options
        IN /\ \A k \in upper : Holds(body, k, last.request_options[k])
           /\ "priority" \notin upper => Holds(body, "priority", "normal")
           /\ "options" \notin upper =>
                 /\ \A k \in lower : Holds(body["options"], k, last.options[k])
                 /\ \A k \in inst \ lower :
                       Holds(body["options"], k, process_circuits_options[k])
                 /\ \A k \in DOMAIN DefaultOptions \ (inst \cup lower) :
                       Holds(body["options"], k, DefaultOptions[k])
                 /\ DOMAIN body["options"] = DOMAIN DefaultOptions \cup inst \cup lower

\* A body was sent in which the call's "simulator" option replaced the
\* constructor's, the constructor's "ignoreme" was kept, and request_options
\* set the priority.
C19_Witness ==
    /\ SentWithOptions
    /\ Holds(process_circuits_options, "simulator", "instance")
    /\ Holds(process_circuits_options, "ignoreme", "instance")
    /\ DOMAIN last.options = {"simulator"}
    /\ DOMAIN last.request_options = {"priority"}
    /\ Holds(last.bodies[1]["options"], "simulator", "call")
    /\ Holds(last.bodies[1]["options"], "ignoreme", "instance")
    /\ Holds(last.bodies[1], "priority", "request")

(***************************************************************************)
(* WASM                                                                    *)
(***************************************************************************)
\* Call l passed a WASM file handler to a backend whose capability map does
\* not advertise wasm support.
WasmCase(l) ==
    /\ l.op \in {"process_circuits", "submit_qasm"}
    /\ l.wasm
    /\ HasBackendInfo /\ ~MiscGet("wasm", FALSE)

\* Call l sent nothing and returned nothing.
NothingSent(l) == l.calls = NoCalls /\ l.accepted = {} /\ l.handles = <<>>

CanonicalOf(remote) ==
    CASE remote = "queued" -> "QUEUED"
      [] remote = "running" -> "RUNNING"
      [] remote = "completed" -> "COMPLETED"
      [] remote = "failed" -> "ERROR"
      [] remote = "canceling" -> "CANCELLED"
      [] remote = "canceled" -> "CANCELLED"

\* C21: the status map is defined on exactly the six remote statuses; a
\* circuit_status that returns gives the canonical status claimed for the
\* remote status the service sent, and a get_result that has retrieved a job
\* record accepts it only when that canonical status is COMPLETED or
\* CANCELLED.
C21_StatusImage ==
    /\ DOMAIN _STATUS_MAP = RemoteStatuses
    /\ (last.op = "circuit_status" /\ last.outcome = "ok" /\ last.response # {}) =>
          /\ Seen.status \in RemoteStatuses
          /\ last.status = CanonicalOf(Seen.status)
    /\ (Retrieved /\ last.response # {}) =>
          /\ Seen.status \in RemoteStatuses
          /\ last.outcome = "ok" => CanonicalOf(Seen.status) \in {"COMPLETED", "CANCELLED"}
          /\ CanonicalOf(Seen.status) \notin {"COMPLETED", "CANCELLED"}
                => last.outcome = "GetResultFailed"

\* circuit_status has returned CANCELLED for a job the service reports as
\* canceling.
C21_Witness ==
    /\ last.op = "circuit_status" /\ last.outcome = "ok"
    /\ last.response # {} /\ Seen.status = "canceling"
    /\ last.status = "CANCELLED"

\* The canonical statuses that are terminal.
TerminalStatuses == {"COMPLETED", "ERROR", "CANCELLED"}

\* C22 as claimed: once circuit_status has returned a terminal status for a
\* handle, the next circuit_status that returns for that handle gives the
\* same status, whatever the service did with the job in between.
C22_Claim ==
    [][(/\ last.op = "circuit_status" /\ last.outcome = "ok"
        /\ last.status \in TerminalStatuses
        /\ last'.op = "circuit_status" /\ last'.outcome = "ok"
        /\ last'.arg = last.arg)
       => last'.status = last.status]_vars

(***************************************************************************)
(* Cancellation                                                            *)
(***************************************************************************)
\* C23: a cancel call sends one cancellation request, for the job id of its
\* handle, and makes no other call on the API handler; it returns no
\* status and no result, and leaves the cache as it was.
C23_CancelOneShot ==
    /\ [](last.op = "cancel" =>
            /\ last.calls = [NoCalls EXCEPT !.cancel = 1]
            /\ last.requests = <<LastArg.job>>
            /\ last.script = <<>>
            /\ last.status = None /\ last.ret = {} /\ last.handles = <<>>
            /\ last.known => LastArg \in DOMAIN cache)
    /\ [][last'.op = "cancel" => cache' = cache]_vars

\* cancel has returned for a handle whose job the service then shows as
\* canceling, while the cache still holds the handle's empty entry.
C23_Witness ==
    /\ last.op = "cancel" /\ last.outcome = "ok"
    /\ last.before = {"running"}
    /\ jobs[LastArg.job.a].status = "canceling"
    /\ LastArg \in DOMAIN cache /\ cache[LastArg] = {}

\* cancel was called on a job that had completed.
CancelledTooLate(l) == l.op = "cancel" /\ l.before = {"completed"}

\* C24: cancel on a job that has completed returns or raises an API error
\* with the message "job has completed already", and leaves the job as it
\* is; the circuit_status that follows on the handle, when the service
\* answers, returns COMPLETED, and the get_result that follows, when the
\* service hands out the job with its results, returns their decoding.
C24_LateCancelBenign ==
    /\ [](CancelledTooLate(last) =>
            /\ \/ last.outcome = "ok"
               \/ /\ last.outcome = "QuantinuumAPIError"
                  /\ last.message = "job has completed already"
            /\ jobs[LastArg.job.a].status = "completed")
    /\ [][(CancelledTooLate(last) /\ last'.arg = last.arg) =>
             /\ (last'.op = "circuit_status" /\ last'.outcome = "ok")
                   => last'.status = "COMPLETED"
             /\ (/\ last'.op = "get_result"
                 /\ last'.script \in {<<>>, <<"ok">>}
                 /\ HasResults(jobs[LastArg.job.a]))
                   => (last'.outcome = "ok" /\ last'.ret = {Decoded(LastArg)})]_vars

\* cancel on a completed job was refused with the benign message.
C24_Witness ==
    /\ CancelledTooLate(last)
    /\ last.outcome = "QuantinuumAPIError"
    /\ last.message = "job has completed already"
    /\ HasResults(jobs[LastArg.job.a])

(***************************************************************************)
(* The device descriptor (lines 239-303 and 336-340)                       *)
(***************************************************************************)
\* The devices the service lists, each with its capability map: two devices
\* whose syntax checker is listed, a device family whose syntax checker
\* "H2SC" is not a device of its own, and an emulator that names none.
DeviceListing ==
    ("H1-1" :> (BatchingDevice @@ ("syntax_checker" :> "H1-1SC")))
    @@ ("H1-1SC" :> (BatchingDevice @@ ("syntax_checker" :> "H1-1SC")))
    @@ ("H2" :> (PlainDevice @@ ("syntax_checker" :> "H2SC")))
    @@ ("H1-1E" :> PlainDevice)

\* The device names a backend is constructed with: the listed ones and one
\* the service does not list.
DeviceNames == DOMAIN DeviceListing \cup {"H9"}

\* The device-listing request is answered, or refused by _response_check.
ListingOutcomes == {"ok", "error"}

\* The capability map the listing holds for a device name, if any.
ListedMisc(name) ==
    IF name \in DOMAIN DeviceListing THEN DeviceListing[name] ELSE EmptyDict

\* _available_devices: a login, then one GET of the machine list.
_available_devices(c, out) ==
    LET q == [c EXCEPT !.calls.login = @ + 1, !.calls.devices = @ + 1,
                       !.script = Append(@, out)]
    IN IF out = "ok" THEN q ELSE [q EXCEPT !.outcome = "QuantinuumAPIError"]

\* _retrieve_backendinfo: the listing's entry named machine, with the
\* instance's options stored in it; the descriptor is left in c.fetched.
_retrieve_backendinfo(c, machine, opts, out) ==
    LET jr == _available_devices(c, out)
    IN IF jr.outcome # "ok" THEN jr
       ELSE IF machine \notin DOMAIN DeviceListing
       THEN [jr EXCEPT !.outcome = "DeviceNotAvailable", !.named = {machine}]
       ELSE [jr EXCEPT !.fetched = {BackendInfoOf(machine, DeviceListing[machine], opts)}]

\* The property with the test of the cached descriptor dropped: every access
\* fetches.
BackendInfoRefetched(c, out) ==
    IF ~machine_debug
    THEN LET r == _retrieve_backendinfo(c, device_name, process_circuits_options, out)
         IN IF r.outcome # "ok" THEN r ELSE [r EXCEPT !.info = r.fetched]
    ELSE c

\* The backend_info property: fetch on the first access outside debug mode,
\* the cached descriptor afterwards.
backend_info(c, out) ==
    IF c.info = {} /\ ~machine_debug
    THEN LET r == _retrieve_backendinfo(c, device_name, process_circuits_options, out)
         IN IF r.outcome # "ok" THEN r ELSE [r EXCEPT !.info = r.fetched]
    ELSE c

\* A call on this instance that may read the descriptor: it starts from the
\* descriptor the instance holds.
BeginInfo(op) ==
    [Begin(op) EXCEPT !.info = _backend_info, !.hit = _backend_info]
    @@ [fetched |-> {}]

\* The caller reads backend.backend_info.
BackendInfo ==
    \E out \in ListingOutcomes :
        LET c == backend_info(BeginInfo("backend_info"), out)
        IN /\ _backend_info' = c.info
           /\ last' = Finish(c)
           /\ UNCHANGED <<machine_debug, process_circuits_options, device_name,
                          misc, jobs, cache, batchHeads, handler, inflight>>

\* A backend constructed for any device name, in debug mode or not, with any
\* instance options: no descriptor is held yet.
InitInfo ==
    /\ machine_debug \in BOOLEAN
    /\ process_circuits_options \in InstanceOptions
    /\ device_name \in DeviceNames
    /\ misc = ListedMisc(device_name)
    /\ _backend_info = {}
    /\ jobs = <<>>
    /\ cache = EmptyDict
    /\ batchHeads = {}
    /\ last = Call("init")
    /\ handler = DefaultSettings
    /\ inflight = Idle

NextInfo == BackendInfo

SpecInfo == InitInfo /\ [][NextInfo]_vars

\* What one access of the descriptor did, by the descriptor held before it.
InfoAccess ==
    last.op = "backend_info" =>
        /\ last.hit # {} =>
              /\ last.calls.devices = 0
              /\ last.outcome = "ok"
              /\ last.info = last.hit
        /\ (last.hit = {} /\ ~machine_debug) =>
              /\ last.calls.devices = 1
              /\ (last.script = <<"ok">> /\ device_name \notin DOMAIN DeviceListing)
                    => (last.outcome = "DeviceNotAvailable" /\ last.info = {})
              /\ (last.script = <<"ok">> /\ device_name \in DOMAIN DeviceListing)
                    => (last.outcome = "ok" /\ last.info # {})
        /\ machine_debug => (last.calls.devices = 0 /\ last.info = {})
        /\ _backend_info = last.info

\* C28: construction queries no device listing; the first access outside
\* debug mode makes one query and raises DeviceNotAvailable when the name
\* is not listed; once a descriptor was fetched the instance makes no further
\* query and the descriptor it holds never changes.
C28_LazyDescriptor ==
    /\ [](last.op = "init" => (last.calls.devices = 0 /\ _backend_info = {}))
    /\ []InfoAccess
    /\ [][_backend_info # {} =>
            (_backend_info' = _backend_info /\ last'.calls.devices = 0)]_vars

\* A second access after a successful fetch.
C28_Witness ==
    /\ last.op = "backend_info"
    /\ last.hit # {}
    /\ last.info = {BackendInfoOf(device_name, misc, process_circuits_options)}

(***************************************************************************)
(* cost (lines 829-898)                                                    *)
(***************************************************************************)
\* The syntax_checker argument: None, a listed device, an unlisted name.
Overrides == {{}, {"H1-1SC"}, {"H1SC"}}

\* The "cost" entry of a status response as the service writes it; "None"
\* when the response has no such entry.
CostTexts == {"None", "5", "7.5"}

\* float(cost), in tenths.
Float(text) == CASE text = "5" -> 50 [] text = "7.5" -> 75

\* What the syntax checker made of the job by the time retrieve_job returns:
\* it ran it, with or without a results payload, or failed it.
CheckerRuns ==
    {[status |-> "completed", results |-> {PayloadC}],
     [status |-> "completed", results |-> {}],
     [status |-> "failed", results |-> {}]}

\* The status polls cost is checked on: answered, unanswered, unreachable.
CostStatusScripts ==
    {<<"ok", "ok", "ok">>, <<"none", "ok", "ok">>, <<"net_error", "ok", "ok">>}

\* The outcomes of the requests of one cost call, in the order of the calls:
\* the listing query of this backend, that of the second backend, the
\* submission, the job's run, its retrieval, the status poll and the cost
\* the poll reports.  A request that is not made is written as its first
\* outcome.
CostRuns ==
    {r \in [l1 : ListingOutcomes, l2 : ListingOutcomes, out : SubmitOutcomes,
            ran : CheckerRuns, rout : RetrieveOutcomes, s : CostStatusScripts,
            text : CostTexts] :
        /\ r.l1 # "ok" => r.l2 = "ok"
        /\ (r.l1 # "ok" \/ r.l2 # "ok") => r.out = "ok"
        /\ (r.l1 # "ok" \/ r.l2 # "ok" \/ r.out # "ok")
              => (r.ran.status = "completed" /\ r.ran.results = {PayloadC} /\ r.rout = "ok")
        /\ (r.l1 # "ok" \/ r.l2 # "ok" \/ r.out # "ok" \/ r.rout # "ok"
              \/ r.ran.status # "completed" \/ r.ran.results = {})
              => (r.s = <<"ok", "ok", "ok">>)
        /\ (r.l1 # "ok" \/ r.l2 # "ok" \/ r.out # "ok" \/ r.rout # "ok"
              \/ r.ran.status # "completed" \/ r.ran.results = {}
              \/ r.s # <<"ok", "ok", "ok">>)
              => r.text = "None"}

\* The request body submit_qasm of the second backend builds (lines 497-529):
\* its machine is the second backend's device, its options the defaults.
CheckerBody(checker, n_shots) ==
    ("machine" :> checker) @@ ("count" :> n_shots) @@ ("priority" :> "normal")
    @@ ("options" :> DefaultOptions)

\* The second backend's cache in place of this backend's, and back.
Swap(c) == [c EXCEPT !.cache = c.cache2, !.cache2 = c.cache]

\* backend.process_circuit(circuit, n_shots) on the second backend, a
\* backend constructed for the device `checker` with the caller's API
\* handler, no options and no debug mode (lines 583-640): the circuit check
\* reads the descriptor, the shot limit is the checker's, and the job is
\* submitted to the checker.
CheckerProcessCircuit(c, checker, n_shots, l, out) ==
    LET info == _retrieve_backendinfo(c, checker, EmptyDict, l)
        m == ListedMisc(checker)
        sent == [info EXCEPT !.bodies = Append(@, CheckerBody(checker, n_shots)),
                             !.outs = Append(@, out),
                             !.calls.submit = @ + 1]
        jobid == ServiceJobId(Len(c.jobs) + 1)
        handle == ResultHandle(jobid, JsonDumps(None))
    IN CASE info.outcome # "ok" -> info
         [] "n_shots" \in DOMAIN m /\ n_shots > m["n_shots"]
              -> [info EXCEPT !.outcome = "MaxShotsExceeded"]
         [] out = "conn_error" -> [sent EXCEPT !.outcome = "ConnectionError"]
         [] out = "http_error" -> [sent EXCEPT !.outcome = "QuantinuumAPIError"]
         [] OTHER -> [sent EXCEPT !.jobs = Append(@, NewJob),
                                  !.accepted = @ \cup {jobid},
                                  !.h = {handle},
                                  !.handles = <<handle>>,
                                  !.cache2 = SetEntry(@, handle, {})]

\* backend.get_result(handle) on the second backend (lines 785-818): its
\* cache holds no result, so the job is retrieved; retrieve_job returns once
\* the checker is done with the job.
CheckerGetResult(c, handle, ran, rout) ==
    LET done == [c EXCEPT !.jobs[handle.job.a].status = ran.status,
                          !.jobs[handle.job.a].results = ran.results]
        job_retrieve == _retrieve_job(done, handle.job, rout)
    IN IF job_retrieve.outcome # "ok" THEN job_retrieve
       ELSE Swap(DecodeRetrieved(Swap(job_retrieve), handle,
                                 TheOne(job_retrieve.response)))

\* backend.circuit_status(handle) on the second backend (lines 756-778, with
\* _parse_status, lines 941-955): c.message is the "cost" entry of the
\* status message, "None" when the response has none.
CheckerStatus(c, handle, s, text) ==
    LET q == StatusQuery(c, s[1], s[2], s[3])
        response == Response(c.jobs[handle.job.a]) @@ [cost |-> text]
    IN IF q.outcome # "ok" THEN q
       ELSE IF q.got = "none" THEN [q EXCEPT !.outcome = "RuntimeError"]
       ELSE [q EXCEPT !.response = {response},
                      !.status = _parse_status(response),
                      !.message = response.cost]

\* Lines 878-898 with the status polled before the result is waited for.
CostPollFirst(c, handle, run) ==
    LET status == CheckerStatus(c, handle, run.s, run.text)
        result == CheckerGetResult(status, handle, run.ran, run.rout)
    IN IF status.outcome # "ok" THEN status
       ELSE IF result.outcome # "ok" THEN result
       ELSE [result EXCEPT !.estimate = IF status.message = "None" THEN {}
                                        ELSE {Float(status.message)}]

\* Lines 893-898: wait for the result, poll the status, return the cost of
\* its message.
CostOfJob(c, handle, run) ==
    LET result == CheckerGetResult(c, handle, run.ran, run.rout)
        status == CheckerStatus(result, handle, run.s, run.text)
    IN IF result.outcome # "ok" THEN result
       ELSE IF status.outcome # "ok" THEN status
       ELSE [status EXCEPT !.estimate = IF status.message = "None" THEN {}
                                        ELSE {Float(status.message)}]

\* The device names the text of cost's ValueError gives: the backend's own
\* and the two of its closing example.
CannotFindNames == {device_name, "H1-1SC", "H1SC"}

\* cost: the circuit check reads this backend's descriptor outside debug
\* mode; the syntax checker is the override or the descriptor's entry; the
\* job goes through a second backend for that device.
cost(c, n_shots, syntax_checker, run) ==
    LET valid == IF machine_debug THEN c ELSE backend_info(c, run.l1)
        m == TheOne(valid.info).misc
        resolved == IF syntax_checker # {} THEN syntax_checker
                    ELSE IF "syntax_checker" \in DOMAIN m THEN {m["syntax_checker"]}
                    ELSE {}
        chosen == __init__([valid EXCEPT !.checker = resolved], None)
        handle == CheckerProcessCircuit(chosen, TheOne(resolved), n_shots,
                                        run.l2, run.out)
    IN CASE valid.outcome # "ok" -> valid
         [] syntax_checker = {} /\ valid.info = {}
              -> [valid EXCEPT !.outcome = "AttributeError"]
         [] resolved = {} -> [valid EXCEPT !.outcome = "NoSyntaxChecker"]
         [] handle.outcome = "DeviceNotAvailable"
              -> [handle EXCEPT !.outcome = "ValueError",
                                !.message = "Cannot find syntax checker",
                                !.named = CannotFindNames]
         [] handle.outcome # "ok" -> handle
         [] OTHER -> CostOfJob(handle, TheOne(handle.h), run)

\* The caller asks for the cost of a circuit, with or without an override.
Cost ==
    \E n_shots \in ShotCounts, syntax_checker \in Overrides, run \in CostRuns :
        /\ Len(jobs) < MaxPolled
        /\ LET b == [BeginInfo("cost") EXCEPT !.arg = syntax_checker,
                                              !.shots = <<n_shots>>]
                    @@ [cache2 |-> EmptyDict, got |-> "none"]
               c == cost(b, n_shots, syntax_checker, run)
           IN /\ jobs' = c.jobs
              /\ _backend_info' = c.info
              /\ handler' = c.handler
              /\ last' = Finish(c)
        /\ UNCHANGED <<machine_debug, process_circuits_options, device_name,
                       misc, cache, batchHeads, inflight>>

\* A backend constructed for any device name, in debug mode or not.
InitCost ==
    /\ machine_debug \in BOOLEAN
    /\ process_circuits_options = EmptyDict
    /\ device_name \in DeviceNames
    /\ misc = ListedMisc(device_name)
    /\ _backend_info = {}
    /\ jobs = <<>>
    /\ cache = EmptyDict
    /\ batchHeads = {}
    /\ last = Call("init")
    /\ handler = DefaultSettings
    /\ inflight = Idle

NextCost == Cost \/ BackendInfo

SpecCost == InitCost /\ [][NextCost]_vars

\* cost got past the circuit check: this backend is in debug mode or holds
\* its descriptor.
CostResolving == last.op = "cost" /\ (machine_debug \/ last.info # {})

\* No capability map gives this backend a syntax checker: it has no map
\* (debug mode) or its map has no "syntax_checker" entry.
NoCheckerConfigured == machine_debug \/ "syntax_checker" \notin DOMAIN misc

\* Every request body of the last call went to the device named.
SentOnlyTo(names) ==
    \A i \in 1..Len(last.bodies) : last.bodies[i]["machine"] \in names

\* C25: cost without an override on a backend with no configured syntax
\* checker raises NoSyntaxChecker and submits nothing; with an override the
\* capability map's entry is not needed and the call goes on to submit on
\* the override device.
C25_Claim ==
    CostResolving =>
        /\ (last.arg = {} /\ NoCheckerConfigured)
              => (last.outcome = "NoSyntaxChecker" /\ last.calls.submit = 0)
        /\ last.arg # {}
              => /\ last.outcome \notin {"NoSyntaxChecker", "AttributeError"}
                 /\ last.checker = last.arg
                 /\ SentOnlyTo(last.arg)

\* The same outside debug mode, where the backend has a capability map.
C25_WithCapabilityMap == ~machine_debug => C25_Claim

\* The status poll of the last call was answered with this cost entry.
Quoted(text) == \E r \in last.response : "cost" \in DOMAIN r /\ r.cost = text

\* C26: cost submits the circuit to the syntax-checker device only, at most
\* once; it retrieves the result only of a job it submitted and polls the
\* status only after the result came; it returns the cost entry of the
\* status message as a float, and None, without an error, when the entry
\* is missing.
C26_CostSequence ==
    last.op = "cost" =>
        /\ SentOnlyTo(last.checker)
        /\ last.calls.submit <= 1
        /\ last.calls.retrieve > 0
              => (last.calls.submit = 1 /\ last.accepted # {})
        /\ last.calls.status > 0
              => (last.calls.retrieve = 1 /\ last.ret # {})
        /\ last.outcome = "ok"
              => /\ last.calls.submit = 1 /\ last.calls.retrieve = 1
                 /\ last.calls.status = 1
                 /\ \E text \in CostTexts :
                        /\ Quoted(text)
                        /\ last.estimate = IF text = "None" THEN {} ELSE {Float(text)}
        /\ Quoted("None") => (last.outcome = "ok" /\ last.estimate = {})

\* A cost call on H1-1 that went through its syntax checker H1-1SC and
\* returned None because the status carried no cost.
C26_Witness ==
    /\ last.op = "cost"
    /\ last.outcome = "ok"
    /\ device_name = "H1-1"
    /\ last.checker = {"H1-1SC"}
    /\ Len(last.bodies) = 1
    /\ Quoted("None")
    /\ last.estimate = {}

\* A cost call that returned the cost as a float.
C26_Priced ==
    last.op = "cost" /\ last.outcome = "ok" /\ Quoted("7.5") /\ last.estimate = {75}

\* cost resolved a syntax checker the service does not list, and the listing
\* query of the second backend was answered.
CheckerUnlisted ==
    /\ last.op = "cost"
    /\ last.checker # {}
    /\ last.checker \cap DOMAIN DeviceListing = {}
    /\ last.outcome # "QuantinuumAPIError"

\* C27: when the resolved syntax checker is not in the device listing, cost
\* raises ValueError "Cannot find syntax checker", the message names the
\* backend's device and the candidate syntax checker, and no job was
\* submitted.
C27_Claim ==
    CheckerUnlisted =>
        /\ last.outcome = "ValueError"
        /\ last.message = "Cannot find syntax checker"
        /\ {device_name} \cup last.checker \subseteq last.named
        /\ last.calls.submit = 0

\* The same without the candidate's name in the message.
C27_ErrorBeforeSubmission ==
    CheckerUnlisted =>
        /\ last.outcome = "ValueError"
        /\ last.message = "Cannot find syntax checker"
        /\ device_name \in last.named
        /\ last.calls.submit = 0

(***************************************************************************)
(* default_compilation_pass (lines 365-434)                                *)
(***************************************************************************)
\* The optimisation levels asked for: those of range(3) and one outside.
Levels == 0..3

\* The _gate_set property, lines 342-348, read into c.gate_set: _GATE_SET in
\* debug mode, the descriptor's gate set otherwise.
_gate_set(c, out) ==
    IF machine_debug THEN [c EXCEPT !.gate_set = _GATE_SET]
    ELSE LET r == backend_info(c, out)
         IN IF r.outcome # "ok" THEN r
            ELSE [r EXCEPT !.gate_set = TheOne(r.info).gate_set]

\* Lines 373-377: the fidelities of the two-qubit gates of the gate set.
Fidelities(gs) ==
    {f \in {"ZZMax_fidelity", "ZZPhase_fidelity"} :
        \/ f = "ZZMax_fidelity" /\ "ZZMax" \in gs
        \/ f = "ZZPhase_fidelity" /\ "ZZPhase" \in gs}

\* Lines 387-417: the passes of each optimisation level.
LevelPasses(optimisation_level) ==
    CASE optimisation_level = 0 -> <<"rebase_pass">>
      [] optimisation_level = 1 ->
            <<"SynthesiseTK", "NormaliseTK2", "DecomposeTK2", "rebase_pass",
              "ZZPhaseToRz", "RemoveRedundancies", "squash", "SimplifyInitial">>
      [] OTHER ->
            <<"FullPeepholeOptimise", "NormaliseTK2", "DecomposeTK2",
              "rebase_pass", "RemoveRedundancies", "squash", "SimplifyInitial">>

NoTwoQubitGate == "Either ZZMax or ZZPhase gate must be supported by device"

default_compilation_pass(c, optimisation_level, out) ==
    LET passlist == <<"DecomposeBoxes", "scratch_reg_resize_pass">>
        gs == _gate_set(c, out)
        fidelities == Fidelities(gs.gate_set)
    IN IF optimisation_level \notin 0..2 THEN [c EXCEPT !.outcome = "AssertionError"]
       ELSE IF gs.outcome # "ok" THEN gs
       ELSE IF fidelities = {}
       THEN [gs EXCEPT !.outcome = "QuantinuumAPIError", !.message = NoTwoQubitGate]
       ELSE [gs EXCEPT !.fidelities = fidelities,
                       !.passlist = passlist \o LevelPasses(optimisation_level)
                                    \o <<"_flatten_registers">>]

\* The caller asks for the default pass of an optimisation level.
DefaultCompilationPass ==
    \E optimisation_level \in Levels, out \in ListingOutcomes :
        LET c == default_compilation_pass(
                     [BeginInfo("default_compilation_pass")
                          EXCEPT !.arg = {optimisation_level}],
                     optimisation_level, out)
        IN /\ _backend_info' = c.info
           /\ last' = Finish(c)
           /\ UNCHANGED <<machine_debug, process_circuits_options, device_name,
                          misc, jobs, cache, batchHeads, handler, inflight>>

NextPass == DefaultCompilationPass \/ BackendInfo

SpecPass == InitInfo /\ [][NextPass]_vars

\* default_compilation_pass returned a pipeline.
PipelineBuilt ==
    last.op = "default_compilation_pass" /\ last.outcome = "ok"

\* C29: for every optimisation level the pipeline's last two passes are the
\* scratch-register width-capping pass and then the register-flattening
\* pass.
C29_Claim ==
    PipelineBuilt =>
        /\ Len(last.passlist) >= 2
        /\ last.passlist[Len(last.passlist) - 1] = "scratch_reg_resize_pass"
        /\ last.passlist[Len(last.passlist)] = "_flatten_registers"

\* What the pipelines have in common: the width-capping pass is the second
\* pass, the register-flattening pass the last.
C29_CappingSecond ==
    PipelineBuilt =>
        /\ last.passlist[1] = "DecomposeBoxes"
        /\ last.passlist[2] = "scratch_reg_resize_pass"
        /\ last.passlist[Len(last.passlist)] = "_flatten_registers"
        /\ \A i \in 3..Len(last.passlist) : last.passlist[i] # "scratch_reg_resize_pass"

\* default_compilation_pass read the gate set: the level was one of
\* range(3) and the descriptor, outside debug mode, was there.
GateSetRead ==
    /\ last.op = "default_compilation_pass"
    /\ last.arg \subseteq 0..2
    /\ last.gate_set # {}

RaisedNoTwoQubitGate ==
    last.outcome = "QuantinuumAPIError" /\ last.message = NoTwoQubitGate

\* C30: default_compilation_pass raises its configuration error exactly
\* when the gate set holds neither ZZMax nor ZZPhase, and returns a pipeline
\* otherwise; a device that advertises neither two-qubit gate gets the
\* error.
C30_Claim ==
    GateSetRead =>
        /\ RaisedNoTwoQubitGate <=> (last.gate_set \cap {"ZZMax", "ZZPhase"} = {})
        /\ ~RaisedNoTwoQubitGate => (last.outcome = "ok" /\ last.passlist # <<>>)
        /\ (~machine_debug /\ AdvertisedGates(device_name) \cap {"ZZ", "RZZ"} = {})
              => RaisedNoTwoQubitGate

\* The test of the gate set alone.
C30_ExactlyWhenNeither ==
    GateSetRead =>
        /\ RaisedNoTwoQubitGate <=> (last.gate_set \cap {"ZZMax", "ZZPhase"} = {})
        /\ ~RaisedNoTwoQubitGate => (last.outcome = "ok" /\ last.passlist # <<>>)

(***************************************************************************)
(* The request body of a submission (lines 497-510 and 621-634)            *)
(***************************************************************************)
\* Circuits with a name, with the empty name and without one.
NamedCircuits ==
    {[n_qubits |-> 1, name |-> "test 1"], [n_qubits |-> 1, name |-> ""],
     [n_qubits |-> 1]}

\* A backend for one of two listed devices, in debug mode or not, that holds
\* its descriptor.
InitNames ==
    /\ machine_debug \in BOOLEAN
    /\ process_circuits_options = EmptyDict
    /\ device_name \in {"H1-1", "H1-1SC"}
    /\ misc = ListedMisc(device_name)
    /\ _backend_info = Descriptor
    /\ jobs = <<>>
    /\ cache = EmptyDict
    /\ batchHeads = {}
    /\ last = Call("init")
    /\ handler = DefaultSettings
    /\ inflight = Idle

\* process_circuits on named and unnamed circuits with one shot count for
\* all of them.
ProcessNamedCircuits ==
    \E k \in 1..MaxCircs :
    \E circuits \in [1..k -> NamedCircuits], n_shots \in ShotCounts,
       outs \in SubmitScripts(k) :
        /\ Len(jobs) + k <= MaxJobs
        /\ ProcessCircuitsStep(circuits, [i \in 1..k |-> n_shots], FALSE, outs)

NextNames == ProcessNamedCircuits

SpecNames == InitNames /\ [][NextNames]_vars

\* The name the i-th circuit of the last call is submitted under.
ExpectedName(i) ==
    LET circ == last.circuits[i]
    IN IF "name" \in DOMAIN circ /\ circ.name # "" THEN circ.name ELSE "job"

\* C31: every body process_circuits submits without request_options carries
\* the circuit's name (the label "job" for an unnamed circuit), the shot
\* count asked for, the backend's device, the language OPENQASM 2.0 and the
\* priority normal; the i-th body is that of the i-th circuit, and a call
\* that returns outside debug mode has submitted one job per circuit.
C31_BodyFields ==
    (last.op = "process_circuits" /\ last.request_options = EmptyDict) =>
        /\ Len(last.bodies) <= last.n_circuits
        /\ \A i \in 1..Len(last.bodies) :
              /\ last.bodies[i]["name"] = ExpectedName(i)
              /\ last.bodies[i]["count"] = last.shots[i]
              /\ last.bodies[i]["machine"] = device_name
              /\ last.bodies[i]["language"] = "OPENQASM 2.0"
              /\ last.bodies[i]["priority"] = "normal"
        /\ (last.outcome = "ok" /\ ~machine_debug) =>
              /\ Len(last.bodies) = last.n_circuits
              /\ Cardinality(last.accepted) = last.n_circuits
              /\ Len(last.handles) = last.n_circuits

\* Two circuits, one named and one not, both submitted.
C31_Witness ==
    /\ last.op = "process_circuits"
    /\ last.outcome = "ok"
    /\ Len(last.bodies) = 2
    /\ last.bodies[1]["name"] = "test 1"
    /\ last.bodies[2]["name"] = "job"
    /\ last.bodies[1]["machine"] = "H1-1"

(***************************************************************************)
(* The result cache over a backend's lifetime (lines 636-638, 739-745)     *)
(***************************************************************************)
\* The answers to a submit request the cache is checked on: a new job id,
\* or ("reissued") the id of the job the service accepted last, as
\* jobdict["job"] is taken as it comes (line 547).
IssueOutcomes == {"ok", "reissued"}

\* process_circuits on one circuit.
SubmitIssued ==
    \E out \in IssueOutcomes, postprocess \in BOOLEAN :
        /\ IF out = "reissued" THEN jobs # <<>> ELSE Len(jobs) < MaxPolled
        /\ ProcessCircuitsStep(<<[n_qubits |-> 1]>>, <<DeviceMaxShots>>,
                               postprocess, <<out>>)

NextCache ==
    \/ SubmitIssued
    \/ JobProgress
    \/ CircuitStatusAnswered
    \/ GetResultAnswered
    \/ CancelIssued

SpecCache == InitWith({BatchingDevice}) /\ [][NextCache]_vars

\* No step removes a handle from the cache, or empties an entry that holds
\* a result.
CacheGrows ==
    /\ DOMAIN cache \subseteq DOMAIN cache'
    /\ \A h \in DOMAIN cache : cache[h] # {} => cache'[h] # {}

\* C32: over any sequence of submissions, status polls, result fetches and
\* cancels the set of cached handles only grows and an entry that holds a
\* result keeps holding one, also when a new submission yields an equal
\* handle.
C32_Claim == [][CacheGrows]_vars

\* The same as long as the new submission's handle is not in the cache yet.
C32_FreshHandles ==
    [][(last'.op = "process_circuits" /\ last'.outs = <<"reissued">>)
          \/ CacheGrows]_vars

(***************************************************************************)
(* The shot limit on every submission path (lines 497-532, 600-605)        *)
(***************************************************************************)
\* request_options with and without an override of the body's count.
CountOverrides == {EmptyDict, "count" :> MaxReqShots}

\* process_circuits on one circuit, with or without a count override.
ProcessCircuitsCount ==
    \E circ \in Circuits, n_shots \in ShotCounts,
       request_options \in CountOverrides, out \in SubmitOutcomes :
        /\ Room(MaxJobs, 1)
        /\ LET c == process_circuits(Begin("process_circuits"), <<circ>>, <<n_shots>>,
                                     FALSE, request_options, <<out>>)
           IN /\ jobs' = c.jobs
              /\ cache' = c.cache
              /\ last' = Return(c, c.handle_list)
        /\ UNCHANGED <<handler, inflight, machine_debug, process_circuits_options,
                       device_name, _backend_info, misc, batchHeads>>

NextShots ==
    \/ ProcessCircuitsCount
    \/ SubmitQasm
    \/ StartBatch
    \/ AddToBatch

SpecShots == InitWith({BatchingDevice}) /\ [][NextShots]_vars

\* Every body the last call sent asks for no more shots than the device's
\* n_shots capability.
WithinShotLimit ==
    \A i \in 1..Len(last.bodies) : last.bodies[i]["count"] <= misc["n_shots"]

\* C33: no body whose count exceeds the device's n_shots capability is sent
\* through any submission path: process_circuits, start_batch, add_to_batch,
\* a direct submit_qasm call, or a request_options entry overriding count.
C33_Claim == WithinShotLimit

\* The paths on which the limit is enforced: process_circuits without a
\* count override, start_batch and add_to_batch.
C33_CheckedPaths ==
    (/\ last.op \in {"process_circuits", "start_batch", "add_to_batch"}
     /\ "count" \notin DOMAIN last.request_options)
        => WithinShotLimit

\* A direct submit_qasm call sends a body above the limit.
C33_DirectCall ==
    last.op = "submit_qasm" /\ last.bodies # <<>> /\ ~WithinShotLimit

\* A count override sends a body above the limit.
C33_Override ==
    /\ last.op = "process_circuits"
    /\ last.shots = <<DeviceMaxShots>>
    /\ last.bodies # <<>> /\ ~WithinShotLimit

\* A sequence with every occurrence of the pass `old` replaced by `new`.
Replaced(seq, old, new) ==
    [i \in 1..Len(seq) |-> IF seq[i] = old THEN new ELSE seq[i]]

\* The pipeline default_compilation_pass builds at a level on this
\* backend's gate set, the descriptor being at hand.
PipelineAt(level) ==
    default_compilation_pass(BeginInfo("default_compilation_pass"), level, "ok").passlist

\* C34: the level-2 pipeline is the level-1 pipeline with the synthesis pass
\* replaced by full peephole optimisation and is otherwise the same, pass
\* for pass; the level-0 pipeline holds only box decomposition and the
\* rebase besides the width-capping and flattening passes.
C34_Claim ==
    PipelineBuilt =>
        /\ last.arg = {2}
              => last.passlist = Replaced(PipelineAt(1), "SynthesiseTK", "FullPeepholeOptimise")
        /\ last.arg = {0}
              => /\ Len(last.passlist) = 4
                 /\ {last.passlist[i] : i \in 1..4}
                      = {"DecomposeBoxes", "rebase_pass", "scratch_reg_resize_pass",
                         "_flatten_registers"}

\* What does hold: level 2 is level 1 with the synthesis pass replaced and
\* without ZZPhaseToRz; level 0 is as stated.
C34_ButForZZPhaseToRz ==
    PipelineBuilt =>
        /\ last.arg = {2}
              => last.passlist
                   = SelectSeq(Replaced(PipelineAt(1), "SynthesiseTK", "FullPeepholeOptimise"),
                               LAMBDA p : p # "ZZPhaseToRz")
        /\ last.arg = {0}
              => last.passlist = <<"DecomposeBoxes", "scratch_reg_resize_pass",
                                   "rebase_pass", "_flatten_registers">>

(***************************************************************************)
(* scratch_reg_resize_pass (lines 111-134)                                 *)
(***************************************************************************)
\* _TEMP_BIT_NAME of pytket
_TEMP_BIT_NAME == "tk_SCRATCH_BIT"

\* A register name is written <<base, k>>: the name base + "_" + str(k),
\* or base alone when k = -1.  The registers of the circuits resized: a
\* user register, the scratch register and a scratch chunk.
RegNames == {<<"c", -1>>, <<_TEMP_BIT_NAME, -1>>, <<_TEMP_BIT_NAME, 0>>}

\* The classical bits of the circuits resized: any set of bits of these
\* registers with indices up to MaxBitIndex.
BitUniverse == [reg : RegNames, index : 0..MaxBitIndex]
BitCircuits == [bits : SUBSET BitUniverse]

\* Lines 119-125: the bit is a scratch bit.
IsScratch(bit) == bit.reg[1] = _TEMP_BIT_NAME

\* The position (from 0) of a scratch bit in circ.bits restricted to the
\* scratch bits: bits are ordered by register name, then by index.
Rank(bit) == (bit.reg[2] + 1) * (MaxBitIndex + 1) + bit.index
Position(bit, scratch_bits) ==
    Cardinality({b \in scratch_bits : Rank(b) < Rank(bit)})

\* Line 130: Bit(f"{_TEMP_BIT_NAME}_{i//max_size}", i % max_size)
ChunkBit(i, max_size) ==
    [reg |-> <<_TEMP_BIT_NAME, i \div max_size>>, index |-> i % max_size]

\* trans with the renaming done from max_size scratch bits on.
TransFromMaxSize(circ, max_size) ==
    LET scratch_bits == {bit \in circ.bits : IsScratch(bit)}
        bits_map == [bit \in scratch_bits |->
                        ChunkBit(Position(bit, scratch_bits), max_size)]
    IN IF Cardinality(scratch_bits) >= max_size
       THEN [bits |-> (circ.bits \ scratch_bits)
                      \cup {bits_map[bit] : bit \in scratch_bits}]
       ELSE circ

\* trans, lines 116-132: rename_units replaces every scratch bit by its
\* image under bits_map.
trans(circ, max_size) ==
    LET scratch_bits == {bit \in circ.bits : IsScratch(bit)}
        bits_map == [bit \in scratch_bits |->
                        ChunkBit(Position(bit, scratch_bits), max_size)]
    IN IF Cardinality(scratch_bits) > max_size
       THEN [bits |-> (circ.bits \ scratch_bits)
                      \cup {bits_map[bit] : bit \in scratch_bits}]
       ELSE circ

\* The pass is applied once to a circuit.
ScratchRegResize ==
    /\ last.op = "init"
    /\ \E circ \in BitCircuits, max_size \in 1..MaxChunkSize :
        /\ last' = [Call("scratch_reg_resize_pass") EXCEPT
                        !.circuits = <<circ>>, !.arg = {max_size},
                        !.ret = {trans(circ, max_size)}]
        /\ UNCHANGED <<machine_debug, process_circuits_options, device_name,
                       _backend_info, misc, jobs, cache, batchHeads, handler,
                       inflight>>

NextResize == ScratchRegResize

SpecResize == InitDebug /\ [][NextResize]_vars

ScratchOf(circ) == {bit \in circ.bits : IsScratch(bit)}

\* C35: after scratch_reg_resize_pass(max_size), max_size >= 1, every
\* scratch register has at most max_size bits; n scratch bits, n above
\* max_size, become bit i mod max_size of chunk i div max_size for i below
\* n, n is kept and the other bits stay; with n at most max_size the
\* circuit is unchanged.
C35_ChunkedScratch ==
    last.op = "scratch_reg_resize_pass" =>
        LET before == last.circuits[1]
            after == TheOne(last.ret)
            max_size == TheOne(last.arg)
            n == Cardinality(ScratchOf(before))
        IN /\ \A r \in {bit.reg : bit \in ScratchOf(after)} :
                 Cardinality({bit \in after.bits : bit.reg = r}) <= max_size
           /\ Cardinality(ScratchOf(after)) = n
           /\ after.bits \ ScratchOf(after) = before.bits \ ScratchOf(before)
           /\ n <= max_size => after = before
           /\ n > max_size =>
                 ScratchOf(after) =
                    {[reg |-> <<_TEMP_BIT_NAME, i \div max_size>>,
                      index |-> i % max_size] : i \in 0..(n - 1)}

\* Four scratch bits in two registers and a user bit, resized to chunks of
\* three: the fourth scratch bit opens chunk 1.
C35_Witness ==
    /\ last.op = "scratch_reg_resize_pass"
    /\ last.arg = {3}
    /\ Cardinality(ScratchOf(last.circuits[1])) = 4
    /\ [reg |-> <<"c", -1>>, index |-> 2] \in TheOne(last.ret).bits
    /\ [reg |-> <<_TEMP_BIT_NAME, 1>>, index |-> 0] \in TheOne(last.ret).bits
    /\ TheOne(last.ret) # last.circuits[1]


(***************************************************************************)
(* _flatten_registers (lines 105-108)                                      *)
(***************************************************************************)
\* The qubit registers of the circuits flattened, in the order pytket
\* sorts register names: the register of Node, and the default register.
QubitRegs == <<"node", "q">>

Node(i) == [reg |-> "node", index |-> i]

\* A circuit is its qubit wires and its operations in order, each on one
\* wire: any set of qubits, and up to MaxOps operations on them.
QubitUniverse == [reg : {QubitRegs[r] : r \in 1..Len(QubitRegs)},
                  index : 0..MaxBitIndex]
QubitCircuits ==
    UNION {[qubits : {qs}, ops : UNION {[1..n -> qs] : n \in 0..MaxOps}] :
              qs \in SUBSET QubitUniverse}

\* The position (from 0) of a qubit in c.qubits, which pytket orders by
\* register name, then by index.
RegRank(reg) == CHOOSE r \in 1..Len(QubitRegs) : QubitRegs[r] = reg
QubitBefore(a, b) ==
    \/ RegRank(a.reg) < RegRank(b.reg)
    \/ a.reg = b.reg /\ a.index < b.index
QubitPosition(qb, qubits) == Cardinality({a \in qubits : QubitBefore(a, qb)})

\* Circuit.remove_blank_wires: the wires without an operation go.
remove_blank_wires(c) ==
    [c EXCEPT !.qubits = {qb \in @ : \E j \in 1..Len(c.ops) : c.ops[j] = qb}]

\* Circuit.rename_units: every unit of the map takes its new name, on the
\* wires and in the operations.
rename_units(c, map) ==
    [qubits |-> {IF qb \in DOMAIN map THEN map[qb] ELSE qb : qb \in c.qubits},
     ops |-> [j \in 1..Len(c.ops) |->
                 IF c.ops[j] \in DOMAIN map THEN map[c.ops[j]] ELSE c.ops[j]]]

\* _flatten_registers without the removal of the blank wires.
FlattenAllWires(c) ==
    rename_units(c, [qb \in c.qubits |-> Node(QubitPosition(qb, c.qubits))])

\* _flatten_registers, lines 105-108
_flatten_registers(c) ==
    LET used == remove_blank_wires(c)
    IN rename_units(used, [qb \in used.qubits |->
                              Node(QubitPosition(qb, used.qubits))])

\* The pass is applied once to a circuit.
FlattenRegisters ==
    /\ last.op = "init"
    /\ \E c \in QubitCircuits :
        /\ last' = [Call("_flatten_registers") EXCEPT
                        !.circuits = <<c>>, !.ret = {_flatten_registers(c)}]
        /\ UNCHANGED <<machine_debug, process_circuits_options, device_name,
                       _backend_info, misc, jobs, cache, batchHeads, handler,
                       inflight>>

NextFlatten == FlattenRegisters

SpecFlatten == InitDebug /\ [][NextFlatten]_vars

\* C36: after the register-flattening pass the qubits are exactly Node(0)
\* to Node(k-1), k the number of qubit wires with an operation: unused
\* wires are dropped and the others renumbered from zero in their original
\* order, whatever their registers and indices.
C36_Flattened ==
    last.op = "_flatten_registers" =>
        LET before == last.circuits[1]
            after == TheOne(last.ret)
            k == Cardinality({qb \in before.qubits :
                                 \E j \in 1..Len(before.ops) :
                                     before.ops[j] = qb})
        IN /\ after.qubits = {[reg |-> "node", index |-> i] : i \in 0..(k - 1)}
           /\ Len(after.ops) = Len(before.ops)
           /\ \A i, j \in 1..Len(before.ops) :
                 /\ after.ops[i] \in after.qubits
                 /\ QubitBefore(before.ops[i], before.ops[j])
                       <=> after.ops[i].index < after.ops[j].index

\* A circuit with wires node[1], q[0], q[2] and an unused q[1], with
\* operations on q[2] then node[1]: they come out on Node(1) and Node(0).
C36_Witness ==
    /\ last.op = "_flatten_registers"
    /\ [reg |-> "q", index |-> 1] \in last.circuits[1].qubits
    /\ last.circuits[1].ops = <<[reg |-> "q", index |-> 2],
                                [reg |-> "node", index |-> 1]>>
    /\ TheOne(last.ret).ops = <<[reg |-> "node", index |-> 1],
                                [reg |-> "node", index |-> 0]>>
    /\ Cardinality(TheOne(last.ret).qubits) = 2


(***************************************************************************)
(* The cache after a failed fetch or an unfinished poll (lines 766-818)    *)
(***************************************************************************)
\* The step is no get_result call that failed and no circuit_status call
\* that saw anything but a COMPLETED job with results, or it leaves the
\* cache as it was.
CacheKeptOnFailure ==
    /\ (last'.op = "get_result" /\ last'.outcome # "ok") => cache' = cache
    /\ (/\ last'.op = "circuit_status"
        /\ ~(/\ last'.outcome = "ok"
             /\ last'.status = "COMPLETED"
             /\ \E response \in last'.response : HasResults(response)))
          => cache' = cache

\* A get_result call on a handle whose entry holds no result asks the
\* service, and when the job is completed with results and the service
\* answers, it returns them and caches them.
FetchedAgain ==
    \A handle \in DOMAIN cache :
        (/\ last' # last
         /\ last'.op = "get_result"
         /\ last'.arg = {handle}
         /\ cache[handle] = {})
            => /\ last'.calls.retrieve = 1
               /\ (/\ jobs[handle.job.a].status = "completed"
                   /\ jobs[handle.job.a].results # {}
                   /\ last'.script = <<"ok">>)
                     => /\ last'.outcome = "ok"
                        /\ cache'[handle] = last'.ret
                        /\ last'.ret # {}

\* C37: a get_result call that fails (GetResultFailed, a retrieval error
\* or a timeout) leaves the cache as it was, and so does a circuit_status
\* call that sees anything but COMPLETED with results; a later get_result
\* on the handle asks the service again and succeeds once the job is
\* completed.
C37_CacheKept == [][CacheKeptOnFailure /\ FetchedAgain]_vars

\* get_result raised GetResultFailed for a job that is not finished, and
\* the handle's entry is still empty.
C37_Witness ==
    /\ last.op = "get_result"
    /\ last.outcome = "GetResultFailed"
    /\ \E handle \in last.arg :
          /\ handle \in DOMAIN cache
          /\ cache[handle] = {}
          /\ jobs[handle.job.a].status = "running"


(***************************************************************************)
(* Validation before submission (lines 350-360, 577-601)                   *)
(***************************************************************************)
\* Circuits that verify every predicate, that use a gate outside the gate
\* set, and that are too wide for the device.
CheckedCircuits ==
    {[n_qubits |-> 1, violates |-> v] :
        v \in {{}, {"GateSetPredicate"}, {"MaxNQubitsPredicate"}}}

\* process_circuits with and without valid_check.
ProcessCircuitsChecked ==
    \E k \in 1..MaxCircs :
    \E circuits \in [1..k -> CheckedCircuits], valid_check \in BOOLEAN,
       n_shots \in ShotCounts :
        /\ Len(jobs) + k <= MaxJobs
        /\ LET c == process_circuits(
                        [Begin("process_circuits") EXCEPT !.valid_check = valid_check],
                        circuits, [i \in 1..k |-> n_shots], FALSE,
                        EmptyDict, [i \in 1..k |-> "ok"])
           IN /\ jobs' = c.jobs
              /\ cache' = c.cache
              /\ last' = Return(c, c.handle_list)
        /\ UNCHANGED <<handler, inflight, machine_debug, process_circuits_options,
                       device_name, _backend_info, misc, batchHeads>>

NextValid == ProcessCircuitsChecked

SpecValid == InitNames /\ [][NextValid]_vars

\* The call of the step checked its circuits and one of them violates a
\* required predicate.
InvalidCircuitChecked ==
    /\ last' # last
    /\ last'.op = "process_circuits"
    /\ last'.valid_check
    /\ \E i \in 1..Len(last'.circuits) :
          last'.circuits[i].violates \cap required_predicates # {}

\* C38: with valid_check, process_circuits validates every circuit before
\* it submits any: when a circuit, at whatever position, violates a
\* required predicate the call raises, no job was submitted and no cache
\* entry made.
C38_ValidatedFirst ==
    [][InvalidCircuitChecked =>
          /\ last'.outcome = "CircuitNotValidError"
          /\ last'.calls.submit = 0
          /\ last'.bodies = <<>>
          /\ last'.handles = <<>>
          /\ jobs' = jobs
          /\ cache' = cache]_vars

\* A call raised for its second circuit after a valid first one, and the
\* service holds no job.
C38_Witness ==
    /\ last.op = "process_circuits"
    /\ last.outcome = "CircuitNotValidError"
    /\ Len(last.circuits) = 2
    /\ last.circuits[1].violates = {}
    /\ last.circuits[2].violates # {}
    /\ jobs = <<>>
    /\ cache = EmptyDict


(***************************************************************************)
(* The shared API handler's provider (lines 222-236, 878-880)              *)
(***************************************************************************)
\* The provider argument of a backend: not given, or the federated login.
Providers == {None, "microsoft"}

\* Another backend is constructed on the API handler of this one.
ConstructBackend ==
    \E provider \in Providers :
        /\ LET c == __init__(Begin("__init__"), provider)
           IN /\ handler' = c.handler
              /\ last' = [Finish(c) EXCEPT !.arg = {provider}]
        /\ UNCHANGED <<machine_debug, process_circuits_options, device_name,
                       _backend_info, misc, jobs, cache, batchHeads, inflight>>

\* A backend on a handler whose provider an earlier backend has set.
InitProvider ==
    /\ machine_debug \in BOOLEAN
    /\ process_circuits_options = EmptyDict
    /\ device_name \in DeviceNames
    /\ misc = ListedMisc(device_name)
    /\ _backend_info = {}
    /\ jobs = <<>>
    /\ cache = EmptyDict
    /\ batchHeads = {}
    /\ last = Call("init")
    /\ handler \in {[DefaultSettings EXCEPT !.provider = p] : p \in Providers}
    /\ inflight = Idle

NextProvider == Cost \/ ConstructBackend

SpecProvider == InitProvider /\ [][NextProvider]_vars

\* The step is a call of cost, or the construction of a backend that is
\* given no provider.
SharedHandlerReused ==
    /\ last' # last
    /\ \/ last'.op = "cost"
       \/ last'.op = "__init__" /\ last'.arg = {None}

\* C39: a backend constructed on an API handler shared with other backends
\* (by the caller, or by cost for the syntax checker) leaves the handler's
\* configuration as it was: the provider an earlier backend set is still
\* in effect afterwards.
C39_Claim == [][SharedHandlerReused => handler' = handler]_vars

\* The same for the timeouts, while the provider is the one set before or
\* none.
C39_TimeoutsKept ==
    [][SharedHandlerReused =>
          /\ handler'.timeout = handler.timeout
          /\ handler'.retry_timeout = handler.retry_timeout
          /\ handler'.provider \in {handler.provider, None}]_vars


(***************************************************************************)
(* Caller kwargs of the batch calls (lines 524-529, 667-672, 709-715)      *)
(***************************************************************************)
\* start_batch with options and request_options kwargs.
StartBatchKw ==
    \E options \in CallOptions, request_options \in RequestOptions,
       max_batch_cost \in BatchCosts, out \in SubmitOutcomes :
        /\ Len(jobs) < MaxJobs
        /\ LET c == start_batch(
                        [Begin("start_batch") @@ [polled |-> FALSE]
                            EXCEPT !.given = ("max_batch_cost" :> max_batch_cost)
                                             @@ ("request_options" :> request_options),
                                   !.options = options,
                                   !.request_options = request_options],
                        max_batch_cost, TheOne(Circuits), DeviceMaxShots, FALSE,
                        out, "ok")
           IN /\ jobs' = c.jobs
              /\ cache' = c.cache
              /\ last' = Return(c, c.handle_list)
              /\ batchHeads' = IF c.outcome = "ok"
                               THEN batchHeads \cup {[job |-> c.handle_list[1].job,
                                                      polled |-> c.polled]}
                               ELSE batchHeads
        /\ UNCHANGED <<handler, inflight, machine_debug, process_circuits_options,
                       device_name, _backend_info, misc>>

\* add_to_batch with options and request_options kwargs.
AddToBatchKw ==
    \E batch_start_job \in {ResultHandle(ServiceJobId(n), JsonDumps(None)) :
                               n \in JobNumbers},
       options \in CallOptions, request_options \in RequestOptions,
       batch_end \in BOOLEAN :
        /\ Len(jobs) < MaxJobs
        /\ LET c == add_to_batch(
                        [BeginOn("add_to_batch", batch_start_job)
                            EXCEPT !.given = ("batch_end" :> batch_end)
                                             @@ ("request_options" :> request_options),
                                   !.options = options,
                                   !.request_options = request_options],
                        batch_start_job, TheOne(Circuits), DeviceMaxShots,
                        batch_end, FALSE, "ok")
           IN /\ jobs' = c.jobs
              /\ cache' = c.cache
              /\ last' = Return(c, c.handle_list)
        /\ UNCHANGED <<handler, inflight, machine_debug, process_circuits_options,
                       device_name, _backend_info, misc, batchHeads>>

NextBatchKw == StartBatchKw \/ AddToBatchKw

SpecBatchKw == InitOptions /\ [][NextBatchKw]_vars

\* The keys submit_qasm writes into every body (lines 497-510).
BodyKeys == {"name", "count", "machine", "language", "priority", "options"}

\* The top-level keys a batch call adds to the body.
BatchKeys ==
    IF last.op = "add_to_batch" /\ last.given["batch_end"]
    THEN {"batch-exec", "batch-end"}
    ELSE {"batch-exec"}

\* C40: start_batch and add_to_batch replace the caller's request_options:
\* the body's only top-level overrides are batch-exec, and batch-end for
\* the last job of a batch, while the caller's options are still merged
\* into the body's options.
C40_BatchOverrides ==
    (last.op \in {"start_batch", "add_to_batch"}
     /\ "request_options" \in DOMAIN last.given)
        => \A i \in 1..Len(last.bodies) :
              LET body == last.bodies[i]
              IN /\ DOMAIN body = BodyKeys \cup BatchKeys
                 /\ body["priority"] = "normal"
                 /\ body["batch-exec"] =
                        IF last.op = "start_batch" THEN last.given["max_batch_cost"]
                        ELSE TheOne(last.arg).job
                 /\ \A k \in DOMAIN last.options :
                        body["options"][k] = last.options[k]
                 /\ \A k \in DOMAIN body["options"] :
                        body["options"][k] # "request"

\* start_batch was given a priority and an options entry in request_options
\* and a simulator in options, and sent its body.
C40_Witness ==
    /\ last.op = "start_batch"
    /\ last.outcome = "ok"
    /\ Len(last.bodies) = 1
    /\ "request_options" \in DOMAIN last.given
    /\ DOMAIN last.given["request_options"] = {"priority", "options"}
    /\ last.options = ("simulator" :> "call")
    /\ last.bodies[1]["options"]["simulator"] = "call"

====
